---- MODULE Spec2Model ----
(***************************************************************************)
(* Plan executor (ExecPlanNodeVisitor), filter draining                    *)
(* (ExecuteExprNodeInternal) and conjunct evaluation                       *)
(* (PhyConjunctFilterExpr) of the query core; the SIMD dispatch table      *)
(* (simd/hook.cpp), the scheduler service (scheduler/SchedInst.cpp) and    *)
(* the load-index C API (segcore/load_index_c.cpp).                        *)
(*                                                                         *)
(* Bitsets are sequences of BOOLEAN; index i+1 of a sequence is segment    *)
(* row i.  A TRUE bit of a filter result means "row matches"; a TRUE bit   *)
(* of a visibility bitset means "row excluded".                            *)
(***************************************************************************)
EXTENDS Integers, Sequences, FiniteSets, TLC

\* ------------------------------------------------------------------ bounds
MaxRows == 3
MaxTs == 2
MaxDeletes == 1
MaxLimit == 2
ChunkRows == 2
MaxInputs == 3
MaxIndexes == 2
MaxFiles == 1

\* The number of query vectors of the placeholder group, and the top_k
\* values a search_info may carry.
NumQueries == {2}
TopKs == {1, 3}

None == "none"

\* std::optional: the empty sequence, or a sequence holding the value.
nullopt == <<>>
Some(v) == <<v>>
has_value(o) == o # <<>>
value(o) == o[1]

VARIABLES
    \* --- the plan executor (ExecPlanNodeVisitor)
    segment_,              \* the segment the visitor reads
    timestamp_,            \* the visitor's query timestamp
    placeholder_group_,    \* the placeholder group: its number of query vectors
    search_result_opt_,    \* ExecPlanNodeVisitor::search_result_opt_
    retrieve_result_opt_,  \* ExecPlanNodeVisitor::retrieve_result_opt_
    node,                  \* the plan node of the last visit
    calls,                 \* the calls the last visit made, in order
    final_view,            \* the bitset handed to vector_search by the last visit
    ret,                   \* what the last visit returned to its caller
    \* --- one run of ExecuteExprNodeInternal over a filter task
    pred_rows,             \* the predicate's value on each row of the segment
    task_pos,              \* the rows the task has already produced
    task_out,              \* the results task->Next() has returned, in order
    bitset_holder,         \* the caller's bitset
    cache_offset_getted,   \* the caller's flag
    cache_offset,          \* the caller's offset cache
    expr_pc,               \* "idle", "loop", "done" or "thrown"
    expr_err,              \* the error ExecuteExprNodeInternal threw
    \* --- one PhyConjunctFilterExpr over one chunk
    is_and_,               \* PhyConjunctFilterExpr::is_and_
    inputs_,               \* the children: each its type and its result
    conj_pc,               \* "new", "constructed", "rejected" or "evaluated"
    resolved,              \* the type ResolveType returned
    conj_err,              \* the failure the construction ended in
    result,                \* the vector Eval returns
    evaluated,             \* the children Eval evaluated, in order
    \* --- namespace milvus::simd (hook.cpp)
    instruction_set,       \* what InstructionSet::GetInstance() reports
    use_avx512,            \* the four switches of hook.cpp
    use_avx2,
    use_sse4_2,
    use_sse2,
    simd,                  \* the dispatched symbols and the use_*_* marks
    hook_pc,               \* "idle", "static" (before init_hook_) or "loaded"
    hook_last,             \* the last operation on the namespace
    \* --- the scheduler service (SchedInst.cpp)
    gpu_search_pool,       \* what get_gpu_pool() returns
    gpu_build_pool,        \* what get_build_resources() returns
    resources_,            \* ResourceMgr: the resources, in the order added
    connections_,          \* ResourceMgr: the links
    res_mgr_running,       \* ResourceMgr is started
    scheduler_running,     \* Scheduler is started
    job_mgr_running,       \* JobMgr is started
    sched_calls,           \* the calls the last service call issued, in order
    sched_last,            \* the last service call: "none", "start" or "stop"
    \* --- the load-index C API (load_index_c.cpp)
    load_index_info,       \* the LoadIndexInfo behind the caller's handle
    index_serial,          \* the indexes CreateIndex has returned so far
    load_status,           \* the CStatus the last call returned
    load_call              \* the last call

planVars == <<segment_, timestamp_, placeholder_group_, search_result_opt_,
              retrieve_result_opt_, node, calls, final_view, ret>>

exprVars == <<pred_rows, task_pos, task_out, bitset_holder, cache_offset_getted,
              cache_offset, expr_pc, expr_err>>

conjVars == <<is_and_, inputs_, conj_pc, resolved, conj_err, result, evaluated>>

useFlags == <<use_avx512, use_avx2, use_sse4_2, use_sse2>>

hookVars == <<instruction_set, useFlags, simd, hook_pc, hook_last>>

schedVars == <<gpu_search_pool, gpu_build_pool, resources_, connections_,
               res_mgr_running, scheduler_running, job_mgr_running,
               sched_calls, sched_last>>

loadVars == <<load_index_info, index_serial, load_status, load_call>>

vars == <<planVars, exprVars, conjVars, hookVars, schedVars, loadVars>>

\* ------------------------------------------------------------- sequences
RECURSIVE CountTrue(_)
CountTrue(b) == IF b = <<>> THEN 0
                ELSE (IF Head(b) THEN 1 ELSE 0) + CountTrue(Tail(b))

Min(a, b) == IF a <= b THEN a ELSE b

\* ---------------------------------------------------------------- Bitset
\* BitsetType: flip, all, count, size, resize(n) (new bits are 0), clear.
flip(b) == [i \in 1..Len(b) |-> ~b[i]]
all(b) == \A i \in 1..Len(b) : b[i]
count(b) == CountTrue(b)
size(b) == Len(b)
resize(b, n) == [i \in 1..n |-> IF i <= Len(b) THEN b[i] ELSE FALSE]
clear(b) == <<>>
\* AppendOneChunk(bitset, data, len): appends the len bools of data.
AppendOneChunk(b, data, len) == b \o SubSeq(data, 1, len)

\* --------------------------------------------------------------- Segment
\* A segment: insert timestamps (append-only, so non-decreasing), one
\* tombstone timestamp per row (0: no tombstone), and whether it is sealed.
IsSorted(s) == \A i \in 1..(Len(s) - 1) : s[i] <= s[i + 1]

InsertSeqs == UNION {{s \in [1..k -> 1..MaxTs] : IsSorted(s)} : k \in 0..MaxRows}

DeleteSeqs(ins) ==
    {d \in [1..Len(ins) -> 0..MaxTs] :
        /\ \A i \in 1..Len(ins) : d[i] = 0 \/ d[i] >= ins[i]
        /\ Cardinality({i \in 1..Len(ins) : d[i] # 0}) <= MaxDeletes}

Segments == UNION {{[ins |-> s, del |-> d, sealed |-> z] :
                        d \in DeleteSeqs(s), z \in BOOLEAN} : s \in InsertSeqs}

\* A sealed segment reports its row count, a growing one the rows inserted
\* at or before ts.
get_active_count(seg, ts) ==
    IF seg.sealed THEN Len(seg.ins)
    ELSE Cardinality({i \in 1..Len(seg.ins) : seg.ins[i] <= ts})

mask_with_timestamps(seg, b, ts) ==
    [i \in 1..Len(b) |-> b[i] \/ (i <= Len(seg.ins) /\ seg.ins[i] > ts)]

mask_with_delete(seg, b, n, ts) ==
    [i \in 1..Len(b) |->
        b[i] \/ (i <= n /\ i <= Len(seg.del) /\ seg.del[i] # 0 /\ seg.del[i] <= ts)]

\* timestamp_filter(bitset, ts): the bitset holds survivors as 1-bits.
timestamp_filter(seg, b, ts) ==
    [i \in 1..Len(b) |-> b[i] /\ (i <= Len(seg.ins) /\ seg.ins[i] <= ts)]

\* timestamp_filter(bitset, offsets, ts): the bitset holds excluded rows as
\* 1-bits; only the rows named by offsets are looked at.
timestamp_filter_offsets(seg, b, offsets, ts) ==
    [i \in 1..Len(b) |->
        b[i] \/ (/\ \E k \in 1..Len(offsets) : offsets[k] = i - 1
                 /\ i <= Len(seg.ins) /\ seg.ins[i] > ts)]

RECURSIVE FirstFrom(_, _, _, _)
FirstFrom(limit, b, want, i) ==
    IF limit <= 0 \/ i > Len(b) THEN <<>>
    ELSE IF b[i] = want THEN <<i - 1>> \o FirstFrom(limit - 1, b, want, i + 1)
    ELSE FirstFrom(limit, b, want, i + 1)

\* find_first(limit, bitset, false_filtered_out): the first limit offsets of
\* the surviving rows; survivors are the 1-bits when false_filtered_out.
find_first(limit, b, false_filtered_out) ==
    FirstFrom(limit, b, false_filtered_out, 1)

\* vector_search: the index answers from the rows the view leaves visible.
vector_search(info, nq, view) ==
    [kind |-> "index", total_nq_ |-> nq, unity_topK_ |-> info.topk,
     candidates |-> {i - 1 : i \in {j \in 1..Len(view) : ~view[j]}}]

\* ------------------------------------------------------------- call log
\* A call the visitor makes, with the arguments it passes.
Call(fn) == [fn |-> fn]
CallTs(fn, ts) == [fn |-> fn, ts |-> ts]
CallSearch(ts, view) == [fn |-> "vector_search", ts |-> ts, bitset |-> view]
CallFilter(ts, b) == [fn |-> "timestamp_filter", ts |-> ts, bitset |-> b]
CallFilterOffsets(ts, b, offsets) ==
    [fn |-> "timestamp_filter_offsets", ts |-> ts, bitset |-> b,
     offsets |-> offsets]
CallFindFirst(limit, b, false_filtered_out) ==
    [fn |-> "find_first", limit |-> limit, bitset |-> b,
     false_filtered_out |-> false_filtered_out]

\* ----------------------------------------------------------- filter task
Hits(bits, base) ==
    LET RECURSIVE H(_)
        H(i) == IF i > Len(bits) THEN <<>>
                ELSE (IF bits[i] THEN <<base + i - 1>> ELSE <<>>) \o H(i + 1)
    IN H(1)

\* One result of task->Next() for the len rows after the first start rows:
\* the number of children of the result row, the variant of its first child,
\* the boolean column and, in a RowVector, the offsets of the hits.
TaskChunk(pred, start, len, kind, nchildren) ==
    LET bits == SubSeq(pred, start + 1, start + len)
    IN [nchildren |-> nchildren, kind |-> kind, bits |-> bits,
        offsets |-> IF kind = "row" THEN Hits(bits, start) ELSE <<>>]

\* The task evaluates the predicate over the active rows in ascending
\* chunks of ChunkRows rows; pred is the predicate's value on each row.
RECURSIVE TaskChunks(_, _, _)
TaskChunks(pred, start, kind) ==
    IF start >= Len(pred) THEN <<>>
    ELSE LET len == Min(ChunkRows, Len(pred) - start)
         IN <<TaskChunk(pred, start, len, kind, 1)>>
            \o TaskChunks(pred, start + len, kind)

\* The results of the filter task of plan node nd.  nd.fault, when present,
\* names one result of the task that comes malformed: its position, the
\* number of children of its row and the variant of its first child.
NodeChunks(nd) ==
    LET chunks == TaskChunks(nd.pred, 0, nd.kind)
    IN IF ~has_value(nd.fault) THEN chunks
       ELSE LET f == value(nd.fault)
            IN [chunks EXCEPT ![f.at] = [@ EXCEPT !.kind = f.kind,
                                                  !.nchildren = f.nchildren]]

\* ----------------------------------------------- ExecuteExprNodeInternal
\* Entry: the holder is cleared and the task created.
ExprEnter(holder, getted, cache) ==
    [bitset |-> clear(holder), getted |-> getted, cache |-> cache, err |-> None]

ConsumeChunk_CachesEveryChunk(st, c) ==
    IF c.nchildren # 1
    THEN [st EXCEPT !.err = "AssertInfo"]
    ELSE IF c.kind = "column"
    THEN [st EXCEPT !.bitset = AppendOneChunk(st.bitset, c.bits, Len(c.bits))]
    ELSE IF c.kind = "row"
    THEN [st EXCEPT !.bitset = AppendOneChunk(st.bitset, c.bits, Len(c.bits)),
                    !.cache = st.cache \o c.offsets,
                    !.getted = TRUE]
    ELSE [st EXCEPT !.err = "UnexpectedError"]

ConsumeChunk_SkipsUnknown(st, c) ==
    IF c.nchildren # 1
    THEN [st EXCEPT !.err = "AssertInfo"]
    ELSE IF c.kind = "column"
    THEN [st EXCEPT !.bitset = AppendOneChunk(st.bitset, c.bits, Len(c.bits))]
    ELSE IF c.kind = "row"
    THEN [st EXCEPT !.bitset = AppendOneChunk(st.bitset, c.bits, Len(c.bits)),
                    !.cache = IF st.getted THEN st.cache ELSE st.cache \o c.offsets,
                    !.getted = TRUE]
    ELSE st

ConsumeChunk_RowDropsBits(st, c) ==
    IF c.nchildren # 1
    THEN [st EXCEPT !.err = "AssertInfo"]
    ELSE IF c.kind = "column"
    THEN [st EXCEPT !.bitset = AppendOneChunk(st.bitset, c.bits, Len(c.bits))]
    ELSE IF c.kind = "row"
    THEN [st EXCEPT !.cache = IF st.getted THEN st.cache ELSE st.cache \o c.offsets,
                    !.getted = TRUE]
    ELSE [st EXCEPT !.err = "UnexpectedError"]

\* The body of the for (;;) loop for one non-null result of task->Next().
ConsumeChunk(st, c) ==
    IF c.nchildren # 1
    THEN [st EXCEPT !.err = "AssertInfo"]
    ELSE IF c.kind = "column"
    THEN [st EXCEPT !.bitset = AppendOneChunk(st.bitset, c.bits, Len(c.bits))]
    ELSE IF c.kind = "row"
    THEN [st EXCEPT !.bitset = AppendOneChunk(st.bitset, c.bits, Len(c.bits)),
                    !.cache = IF st.getted THEN st.cache ELSE st.cache \o c.offsets,
                    !.getted = TRUE]
    ELSE [st EXCEPT !.err = "UnexpectedError"]

RECURSIVE DrainTask(_, _)
DrainTask(st, chunks) ==
    IF chunks = <<>> \/ st.err # None THEN st
    ELSE DrainTask(ConsumeChunk(st, Head(chunks)), Tail(chunks))

ExecuteExprNodeInternal(chunks, holder, getted, cache) ==
    DrainTask(ExprEnter(holder, getted, cache), chunks)

\* ExecuteExprNode(plannode, segment, result): the overload without the
\* offset cache.
ExecuteExprNode(chunks, expr_res) ==
    ExecuteExprNodeInternal(chunks, expr_res, FALSE, <<>>)

\* ------------------------------------------------- PhyConjunctFilterExpr
\* The kind of error an AssertInfo of the expression typing surfaces as.
TypingFailure == "InvalidExpression"

ResolveType_FirstOnly(inputs) ==
    IF ~(Len(inputs) > 0) THEN [ok |-> FALSE, err |-> TypingFailure]
    ELSE IF inputs[1] # "BOOL" THEN [ok |-> FALSE, err |-> TypingFailure]
    ELSE [ok |-> TRUE, type |-> "BOOL"]

\* inputs: the children's types.
ResolveType(inputs) ==
    IF ~(Len(inputs) > 0) THEN [ok |-> FALSE, err |-> TypingFailure]
    ELSE IF \E i \in 1..Len(inputs) : inputs[i] # "BOOL"
    THEN [ok |-> FALSE, err |-> TypingFailure]
    ELSE [ok |-> TRUE, type |-> "BOOL"]

AllTrue(vec) == \A i \in 1..Len(vec) : vec[i]
AllFalse(vec) == \A i \in 1..Len(vec) : ~vec[i]

\* ConjunctElementFunc<is_and>: combines input_result into the running
\* result and returns the number of rows that are not yet dominated.
ConjunctElementFunc(is_and, input_result, res) ==
    LET out == [i \in 1..Len(res) |->
                   IF is_and THEN res[i] /\ input_result[i]
                   ELSE res[i] \/ input_result[i]]
    IN [result |-> out,
        active_rows |-> IF is_and THEN CountTrue(out) ELSE Len(out) - CountTrue(out)]

UpdateResult_AlwaysAnd(is_and, input_result, res) ==
    ConjunctElementFunc(TRUE, input_result, res)

UpdateResult(is_and, input_result, res) ==
    IF is_and THEN ConjunctElementFunc(TRUE, input_result, res)
    ELSE ConjunctElementFunc(FALSE, input_result, res)

CanSkipNextExprs_Swapped(is_and, vec) ==
    IF (is_and /\ AllTrue(vec)) \/ (~is_and /\ AllFalse(vec)) THEN TRUE ELSE FALSE

CanSkipNextExprs(is_and, vec) ==
    IF (is_and /\ AllFalse(vec)) \/ (~is_and /\ AllTrue(vec)) THEN TRUE ELSE FALSE

RECURSIVE EvalLoop_NoLaterStop(_, _, _, _, _)
EvalLoop_NoLaterStop(i, inputs, is_and, res, ev) ==
    IF i > Len(inputs) THEN [result |-> res, evaluated |-> ev]
    ELSE LET input_result == inputs[i].out
             ev1 == Append(ev, i)
         IN IF i = 1
            THEN IF CanSkipNextExprs(is_and, input_result)
                 THEN [result |-> Some(input_result), evaluated |-> ev1]
                 ELSE EvalLoop_NoLaterStop(i + 1, inputs, is_and,
                                           Some(input_result), ev1)
            ELSE LET u == UpdateResult(is_and, input_result, value(res))
                 IN EvalLoop_NoLaterStop(i + 1, inputs, is_and, Some(u.result), ev1)

\* The for loop of Eval from child i on: res is the caller's result so far,
\* ev the children evaluated so far.
RECURSIVE EvalLoop(_, _, _, _, _)
EvalLoop(i, inputs, is_and, res, ev) ==
    IF i > Len(inputs) THEN [result |-> res, evaluated |-> ev]
    ELSE LET input_result == inputs[i].out
             ev1 == Append(ev, i)
         IN IF i = 1
            THEN IF CanSkipNextExprs(is_and, input_result)
                 THEN [result |-> Some(input_result), evaluated |-> ev1]
                 ELSE EvalLoop(i + 1, inputs, is_and, Some(input_result), ev1)
            ELSE LET u == UpdateResult(is_and, input_result, value(res))
                 IN IF u.active_rows = 0
                    THEN [result |-> Some(u.result), evaluated |-> ev1]
                    ELSE EvalLoop(i + 1, inputs, is_and, Some(u.result), ev1)

Eval(inputs, is_and, res) == EvalLoop(1, inputs, is_and, res, <<>>)

\* ------------------------------------------------------ VectorVisitorImpl
\* SubSearchResult(nq, topk, ...): nq * topk placeholder offsets and
\* sentinel distances.
SubSearchResult(nq, topk) ==
    [seg_offsets |-> [i \in 1..(nq * topk) |-> -1],
     distances |-> [i \in 1..(nq * topk) |-> "sentinel"]]

empty_search_result(num_queries, search_info) ==
    LET sub == SubSearchResult(num_queries, search_info.topk)
    IN [kind |-> "empty", total_nq_ |-> num_queries,
        unity_topK_ |-> search_info.topk,
        seg_offsets_ |-> sub.seg_offsets, distances_ |-> sub.distances]

AnnFilter_NoFlip(nd, active_count) ==
    IF nd.has_filter
    THEN LET ex == ExecuteExprNode(NodeChunks(nd), <<>>)
         IN [bitset |-> IF ex.err = None THEN ex.bitset ELSE <<>>,
             calls |-> <<Call("ExecuteExprNode")>>, err |-> ex.err]
    ELSE [bitset |-> resize(<<>>, active_count), calls |-> <<>>, err |-> None]

\* The bitset_holder built from the filter: the flipped filter result, or
\* active_count zero bits.  nd: [has_filter, pred, kind, info].
AnnFilter(nd, active_count) ==
    IF nd.has_filter
    THEN LET ex == ExecuteExprNode(NodeChunks(nd), <<>>)
         IN [bitset |-> IF ex.err = None THEN flip(ex.bitset) ELSE <<>>,
             calls |-> <<Call("ExecuteExprNode")>>, err |-> ex.err]
    ELSE [bitset |-> resize(<<>>, active_count), calls |-> <<>>, err |-> None]

AnnMasks_DeleteFirst(seg, ts, active_count, fr) ==
    [fr EXCEPT
        !.bitset = mask_with_timestamps(seg, mask_with_delete(seg, fr.bitset,
                                                              active_count, ts), ts),
        !.calls = fr.calls \o <<CallTs("mask_with_delete", ts),
                                CallTs("mask_with_timestamps", ts)>>]

AnnMasks(seg, ts, active_count, fr) ==
    [fr EXCEPT
        !.bitset = mask_with_delete(seg, mask_with_timestamps(seg, fr.bitset, ts),
                                    active_count, ts),
        !.calls = fr.calls \o <<CallTs("mask_with_timestamps", ts),
                                CallTs("mask_with_delete", ts)>>]

AnnSearch_NoAllCheck(num_queries, search_info, ts, fr) ==
    [result |-> Some(vector_search(search_info, num_queries, fr.bitset)),
     calls |-> fr.calls \o <<CallSearch(ts, fr.bitset)>>,
     view |-> Some(fr.bitset), err |-> None]

\* The outcome of a visit: the value stored in the result slot (nullopt
\* when the visit threw), the calls made, the bitset handed to
\* vector_search and the error thrown.
AnnSearch(num_queries, search_info, ts, fr) ==
    IF all(fr.bitset)
    THEN [result |-> Some(empty_search_result(num_queries, search_info)),
          calls |-> fr.calls \o <<Call("empty_search_result")>>,
          view |-> nullopt, err |-> None]
    ELSE [result |-> Some(vector_search(search_info, num_queries, fr.bitset)),
          calls |-> fr.calls \o <<CallSearch(ts, fr.bitset)>>,
          view |-> Some(fr.bitset), err |-> None]

Thrown(fr, c0) ==
    [result |-> nullopt, calls |-> c0 \o fr.calls, view |-> nullopt, err |-> fr.err]

Prefixed(out, c0) == [out EXCEPT !.calls = c0 \o out.calls]

VectorVisitorImpl(seg, ts, num_queries, nd) ==
    LET active_count == get_active_count(seg, ts)
        c0 == <<CallTs("get_active_count", ts)>>
    IN IF active_count = 0
       THEN [result |-> Some(empty_search_result(num_queries, nd.info)),
             calls |-> c0 \o <<Call("empty_search_result")>>,
             view |-> nullopt, err |-> None]
       ELSE LET f == AnnFilter(nd, active_count)
            IN IF f.err # None THEN Thrown(f, c0)
               ELSE Prefixed(AnnSearch(num_queries, nd.info, ts,
                                       AnnMasks(seg, ts, active_count, f)), c0)

\* ------------------------------------------------ visit(RetrievePlanNode)
wrap_num_entities(cnt) == [field_data_ |-> <<cnt>>, result_offsets_ |-> <<>>]

\* A default-constructed RetrieveResult.
RetrieveResult == [field_data_ |-> <<>>, result_offsets_ |-> <<>>]

\* The bitset_holder built from the filter, with the offset cache.
\* nd: [has_filter, pred, kind, is_count, limit].
RetrieveFilter(nd, active_count) ==
    LET holder == IF nd.is_count THEN resize(<<>>, active_count) ELSE <<>>
    IN IF nd.has_filter
       THEN LET ex == ExecuteExprNodeInternal(NodeChunks(nd),
                                              holder, FALSE, <<>>)
            IN [bitset |-> IF ex.err = None THEN flip(ex.bitset) ELSE <<>>,
                getted |-> ex.getted, cache |-> ex.cache,
                calls |-> <<Call("ExecuteExprNodeInternal")>>, err |-> ex.err]
       ELSE [bitset |-> holder, getted |-> FALSE, cache |-> <<>>,
             calls |-> <<>>, err |-> None]

RetrieveMasks(seg, ts, active_count, fr) ==
    [fr EXCEPT
        !.bitset = mask_with_delete(seg, mask_with_timestamps(seg, fr.bitset, ts),
                                    active_count, ts),
        !.calls = fr.calls \o <<CallTs("mask_with_timestamps", ts),
                                CallTs("mask_with_delete", ts)>>]

RetrieveCount_Ones(fr) ==
    [result |-> Some(wrap_num_entities(count(fr.bitset))),
     calls |-> fr.calls \o <<Call("wrap_num_entities")>>, view |-> nullopt, err |-> None]

RetrieveCount(fr) ==
    [result |-> Some(wrap_num_entities(size(fr.bitset) - count(fr.bitset))),
     calls |-> fr.calls \o <<Call("wrap_num_entities")>>, view |-> nullopt, err |-> None]

RetrieveOffsets_WrongPolarity(seg, ts, nd, fr) ==
    IF fr.getted
    THEN LET b == timestamp_filter_offsets(seg, fr.bitset, fr.cache, ts)
         IN [result |-> Some([RetrieveResult EXCEPT
                                 !.result_offsets_ = find_first(nd.limit, b, FALSE)]),
             calls |-> fr.calls
                       \o <<CallFilterOffsets(ts, fr.bitset, fr.cache),
                            CallFindFirst(nd.limit, b, FALSE)>>,
             view |-> nullopt, err |-> None]
    ELSE LET b == timestamp_filter(seg, flip(fr.bitset), ts)
         IN [result |-> Some([RetrieveResult EXCEPT
                                 !.result_offsets_ = find_first(nd.limit, b, FALSE)]),
             calls |-> fr.calls
                       \o <<CallFilter(ts, flip(fr.bitset)),
                            CallFindFirst(nd.limit, b, FALSE)>>,
             view |-> nullopt, err |-> None]

\* The MVCC fast path and find_first.
RetrieveOffsets(seg, ts, nd, fr) ==
    IF fr.getted
    THEN LET b == timestamp_filter_offsets(seg, fr.bitset, fr.cache, ts)
         IN [result |-> Some([RetrieveResult EXCEPT
                                 !.result_offsets_ = find_first(nd.limit, b, FALSE)]),
             calls |-> fr.calls
                       \o <<CallFilterOffsets(ts, fr.bitset, fr.cache),
                            CallFindFirst(nd.limit, b, FALSE)>>,
             view |-> nullopt, err |-> None]
    ELSE LET b == timestamp_filter(seg, flip(fr.bitset), ts)
         IN [result |-> Some([RetrieveResult EXCEPT
                                 !.result_offsets_ = find_first(nd.limit, b, TRUE)]),
             calls |-> fr.calls
                       \o <<CallFilter(ts, flip(fr.bitset)),
                            CallFindFirst(nd.limit, b, TRUE)>>,
             view |-> nullopt, err |-> None]

RetrieveFinish_NoAllCheck(seg, ts, nd, fr) ==
    IF nd.is_count THEN RetrieveCount(fr)
    ELSE RetrieveOffsets(seg, ts, nd, fr)

\* What follows the masks: the all-excluded return, the count, the offsets.
RetrieveFinish(seg, ts, nd, fr) ==
    IF all(fr.bitset) /\ ~nd.is_count
    THEN [result |-> Some(RetrieveResult), calls |-> fr.calls,
          view |-> nullopt, err |-> None]
    ELSE IF nd.is_count THEN RetrieveCount(fr)
    ELSE RetrieveOffsets(seg, ts, nd, fr)

VisitRetrievePlanNode_CountBeforeMasks(seg, ts, nd) ==
    LET active_count == get_active_count(seg, ts)
        c0 == <<CallTs("get_active_count", ts)>>
    IN IF active_count = 0 /\ ~nd.is_count
       THEN [result |-> Some(RetrieveResult), calls |-> c0,
             view |-> nullopt, err |-> None]
       ELSE IF active_count = 0 /\ nd.is_count
       THEN [result |-> Some(wrap_num_entities(0)),
             calls |-> c0 \o <<Call("wrap_num_entities")>>,
             view |-> nullopt, err |-> None]
       ELSE LET f == RetrieveFilter(nd, active_count)
            IN IF f.err # None THEN Thrown(f, c0)
               ELSE IF nd.is_count THEN Prefixed(RetrieveCount(f), c0)
               ELSE Prefixed(RetrieveFinish(seg, ts, nd,
                                 RetrieveMasks(seg, ts, active_count, f)), c0)

VisitRetrievePlanNode(seg, ts, nd) ==
    LET active_count == get_active_count(seg, ts)
        c0 == <<CallTs("get_active_count", ts)>>
    IN IF active_count = 0 /\ ~nd.is_count
       THEN [result |-> Some(RetrieveResult), calls |-> c0,
             view |-> nullopt, err |-> None]
       ELSE IF active_count = 0 /\ nd.is_count
       THEN [result |-> Some(wrap_num_entities(0)),
             calls |-> c0 \o <<Call("wrap_num_entities")>>,
             view |-> nullopt, err |-> None]
       ELSE LET f == RetrieveFilter(nd, active_count)
            IN IF f.err # None THEN Thrown(f, c0)
               ELSE Prefixed(RetrieveFinish(seg, ts, nd,
                                 RetrieveMasks(seg, ts, active_count, f)), c0)

\* -------------------------------------------------------------- requests
TaskKinds == {"column", "row"}

Preds(n) == [1..n -> BOOLEAN]

\* The filters a plan node can carry for a segment with n active rows: none,
\* or a predicate with its value on each active row and the variant the
\* task reports its chunks in.
Filters(n) ==
    {[has_filter |-> FALSE, pred |-> <<>>, kind |-> None, fault |-> nullopt]}
    \cup {[has_filter |-> TRUE, pred |-> p, kind |-> k, fault |-> nullopt] :
              p \in Preds(n), k \in TaskKinds}

VectorNodes(n) ==
    {[type |-> "ANNS", has_filter |-> f.has_filter, pred |-> f.pred,
      kind |-> f.kind, fault |-> f.fault, info |-> q] :
          f \in Filters(n), q \in [topk : TopKs]}

\* A count plan carries no limit (0 here).
RetrieveNodes(n) ==
    {[type |-> "Retrieve", has_filter |-> f.has_filter, pred |-> f.pred,
      kind |-> f.kind, fault |-> f.fault, is_count |-> FALSE, limit |-> l] :
          f \in Filters(n), l \in 1..MaxLimit}
    \cup {[type |-> "Retrieve", has_filter |-> f.has_filter, pred |-> f.pred,
            kind |-> f.kind, fault |-> f.fault, is_count |-> TRUE, limit |-> 0] :
              f \in Filters(n)}

\* ------------------------------------------------ namespace milvus::simd
\* A kernel: the function it implements and the instruction set it is
\* written for ("REF" for the reference implementation).
Kernel(fn, isa) == [fn |-> fn, isa |-> isa]

Features == {"AVX512F", "AVX512DQ", "AVX512BW", "AVX2", "SSE42", "SSE2"}

FindTermSymbols ==
    {"find_term_bool", "find_term_int8", "find_term_int16", "find_term_int32",
     "find_term_int64", "find_term_float", "find_term_double"}

BooleanSymbols == {"all_false", "all_true", "invert_bool", "and_bool", "or_bool"}

Symbols == {"get_bitset_block"} \cup BooleanSymbols \cup FindTermSymbols

\* The function a dispatched symbol stands for.
KernelFn(sym) ==
    CASE sym = "get_bitset_block" -> "GetBitsetBlock"
      [] sym = "all_false" -> "AllFalse"
      [] sym = "all_true" -> "AllTrue"
      [] sym = "invert_bool" -> "InvertBool"
      [] sym = "and_bool" -> "AndBool"
      [] sym = "or_bool" -> "OrBool"
      [] sym = "find_term_bool" -> "FindTerm<bool>"
      [] sym = "find_term_int8" -> "FindTerm<int8_t>"
      [] sym = "find_term_int16" -> "FindTerm<int16_t>"
      [] sym = "find_term_int32" -> "FindTerm<int32_t>"
      [] sym = "find_term_int64" -> "FindTerm<int64_t>"
      [] sym = "find_term_float" -> "FindTerm<float>"
      [] sym = "find_term_double" -> "FindTerm<double>"

\* The namespace after static initialisation and before init_hook_: every
\* symbol on its reference kernel, the use_*_* marks zero-initialised.
StaticSimd ==
    [get_bitset_block |-> Kernel("GetBitsetBlock", "REF"),
     all_false |-> Kernel("AllFalse", "REF"),
     all_true |-> Kernel("AllTrue", "REF"),
     invert_bool |-> Kernel("InvertBool", "REF"),
     and_bool |-> Kernel("AndBool", "REF"),
     or_bool |-> Kernel("OrBool", "REF"),
     find_term_bool |-> Kernel("FindTerm<bool>", "REF"),
     find_term_int8 |-> Kernel("FindTerm<int8_t>", "REF"),
     find_term_int16 |-> Kernel("FindTerm<int16_t>", "REF"),
     find_term_int32 |-> Kernel("FindTerm<int32_t>", "REF"),
     find_term_int64 |-> Kernel("FindTerm<int64_t>", "REF"),
     find_term_float |-> Kernel("FindTerm<float>", "REF"),
     find_term_double |-> Kernel("FindTerm<double>", "REF"),
     use_bitset_sse2 |-> FALSE,
     use_find_term_sse2 |-> FALSE,
     use_find_term_sse4_2 |-> FALSE,
     use_find_term_avx2 |-> FALSE,
     use_find_term_avx512 |-> FALSE]

cpu_support_avx512(is) == is.AVX512F /\ is.AVX512DQ /\ is.AVX512BW
cpu_support_avx2(is) == is.AVX2
cpu_support_sse4_2(is) == is.SSE42
cpu_support_sse2(is) == is.SSE2

\* bitset_hook(): d is the namespace, u the four switches, is the
\* instruction set.
bitset_hook(d, u, is) ==
    IF u.use_avx512 /\ cpu_support_avx512(is)
    THEN [d EXCEPT !.get_bitset_block = Kernel("GetBitsetBlock", "SSE2"),
                   !.use_bitset_sse2 = TRUE]
    ELSE IF u.use_avx2 /\ cpu_support_avx2(is)
    THEN [d EXCEPT !.get_bitset_block = Kernel("GetBitsetBlock", "SSE2"),
                   !.use_bitset_sse2 = TRUE]
    ELSE IF u.use_sse4_2 /\ cpu_support_sse4_2(is)
    THEN [d EXCEPT !.get_bitset_block = Kernel("GetBitsetBlock", "SSE2"),
                   !.use_bitset_sse2 = TRUE]
    ELSE IF u.use_sse2 /\ cpu_support_sse2(is)
    THEN [d EXCEPT !.get_bitset_block = Kernel("GetBitsetBlock", "SSE2"),
                   !.use_bitset_sse2 = TRUE]
    ELSE d

\* The seven find_term pointers set to the kernels of one instruction set.
SetFindTerm(d, isa) ==
    [d EXCEPT !.find_term_bool = Kernel("FindTerm<bool>", isa),
              !.find_term_int8 = Kernel("FindTerm<int8_t>", isa),
              !.find_term_int16 = Kernel("FindTerm<int16_t>", isa),
              !.find_term_int32 = Kernel("FindTerm<int32_t>", isa),
              !.find_term_int64 = Kernel("FindTerm<int64_t>", isa),
              !.find_term_float = Kernel("FindTerm<float>", isa),
              !.find_term_double = Kernel("FindTerm<double>", isa)]

find_term_hook_Avx2First(d, u, is) ==
    IF u.use_avx2 /\ cpu_support_avx2(is)
    THEN [SetFindTerm(d, "AVX2") EXCEPT !.use_find_term_avx2 = TRUE]
    ELSE IF u.use_avx512 /\ cpu_support_avx512(is)
    THEN [SetFindTerm(d, "AVX512") EXCEPT !.use_find_term_avx512 = TRUE]
    ELSE IF u.use_sse4_2 /\ cpu_support_sse4_2(is)
    THEN [SetFindTerm(d, "SSE4") EXCEPT !.use_find_term_sse4_2 = TRUE]
    ELSE IF u.use_sse2 /\ cpu_support_sse2(is)
    THEN [SetFindTerm(d, "SSE2") EXCEPT !.use_find_term_sse2 = TRUE]
    ELSE d

\* find_term_hook()
find_term_hook(d, u, is) ==
    IF u.use_avx512 /\ cpu_support_avx512(is)
    THEN [SetFindTerm(d, "AVX512") EXCEPT !.use_find_term_avx512 = TRUE]
    ELSE IF u.use_avx2 /\ cpu_support_avx2(is)
    THEN [SetFindTerm(d, "AVX2") EXCEPT !.use_find_term_avx2 = TRUE]
    ELSE IF u.use_sse4_2 /\ cpu_support_sse4_2(is)
    THEN [SetFindTerm(d, "SSE4") EXCEPT !.use_find_term_sse4_2 = TRUE]
    ELSE IF u.use_sse2 /\ cpu_support_sse2(is)
    THEN [SetFindTerm(d, "SSE2") EXCEPT !.use_find_term_sse2 = TRUE]
    ELSE d

\* all_boolean_hook()
all_boolean_hook(d, u, is) ==
    IF u.use_sse2 /\ cpu_support_sse2(is)
    THEN [d EXCEPT !.all_false = Kernel("AllFalse", "SSE2"),
                   !.all_true = Kernel("AllTrue", "SSE2")]
    ELSE d

\* invert_boolean_hook()
invert_boolean_hook(d, u, is) ==
    IF u.use_sse2 /\ cpu_support_sse2(is)
    THEN [d EXCEPT !.invert_bool = Kernel("InvertBool", "SSE2")]
    ELSE d

\* logical_boolean_hook()
logical_boolean_hook(d, u, is) ==
    IF u.use_avx512 /\ cpu_support_avx512(is)
    THEN [d EXCEPT !.and_bool = Kernel("AndBool", "AVX512"),
                   !.or_bool = Kernel("OrBool", "AVX512")]
    ELSE IF u.use_avx2 /\ cpu_support_avx2(is)
    THEN [d EXCEPT !.and_bool = Kernel("AndBool", "AVX2"),
                   !.or_bool = Kernel("OrBool", "AVX2")]
    ELSE IF u.use_sse2 /\ cpu_support_sse2(is)
    THEN [d EXCEPT !.and_bool = Kernel("AndBool", "SSE2"),
                   !.or_bool = Kernel("OrBool", "SSE2")]
    ELSE d

\* boolean_hook()
boolean_hook(d, u, is) ==
    logical_boolean_hook(invert_boolean_hook(all_boolean_hook(d, u, is), u, is),
                         u, is)

\* The static initialiser init_hook_.
init_hook_(d, u, is) ==
    boolean_hook(find_term_hook(bitset_hook(d, u, is), u, is), u, is)

\* ----------------------------------- the load-index C API (load_index_c.cpp)
\* The keys of index_params the API looks at, the field types (one vector
\* type and one scalar type next to the unset one) and the mmap directories.
IndexKeys == {"index_type", "metric_type"}
DataTypes == {"NONE", "INT64", "VECTOR_FLOAT"}
MmapDirs == {"", "/mmap"}
\* The ids AppendFieldInfo is called with (collection, partition, segment,
\* field) and those AppendIndexInfo is called with (index, build, version).
FieldIds == {<<1, 1, 1, 100>>}
IndexInfos == {<<1, 1, 1>>, <<2, 3, 1>>}
EngineVersions == {0, 1}

datatype_is_vector(field_type) == field_type = "VECTOR_FLOAT"

\* What the collaborators of one call do: IndexFactory::CreateIndex, the
\* index's Load / LoadV2 and RemoveDir each return or throw; Space::Open
\* returns a result that is ok() or not; IsMmapSupported() answers either way.
Outcomes == {"ok", "throw"}
Env(create, load, open, mmap, rmdir) ==
    [CreateIndex |-> create, Load |-> load, Open |-> open,
     IsMmapSupported |-> mmap, RemoveDir |-> rmdir]
NoEnv == Env("ok", "ok", TRUE, FALSE, "ok")

\* A default-constructed LoadIndexInfo.  index_params is kept as the set of
\* its keys and index_files as the number of paths it holds.
EmptyLoadIndexInfo ==
    [collection_id |-> 0, partition_id |-> 0, segment_id |-> 0,
     field_id |-> 0, field_type |-> "NONE", enable_mmap |-> FALSE,
     mmap_dir_path |-> "", index_params |-> {}, index_files |-> 0,
     index_id |-> 0, index_build_id |-> 0, index_version |-> 0,
     index_engine_version |-> 0, index |-> nullopt]

\* The index CreateIndex returns (not loaded yet), and the same index after
\* Load returned.
NewIndex(serial) == [serial |-> serial, loaded |-> FALSE]
Loaded(index) == [index EXCEPT !.loaded = TRUE]

\* A C string: a literal of the library, or a copy strdup() allocated.
Literal(text) == [heap |-> FALSE, text |-> text]
strdup(text) == [heap |-> TRUE, text |-> text]

CStatus(error_code, error_msg) ==
    [error_code |-> error_code, error_msg |-> error_msg]

\* How a try block ends: at its return statement, or at a throw.  Either way
\* info is the LoadIndexInfo as the block left it.
Return(info) == [info |-> info, thrown |-> nullopt]
Throw(info, what) == [info |-> info, thrown |-> Some(what)]

\* try { ...; return Success, "" } catch (std::exception& e)
\*                                 { return UnexpectedError, strdup(e.what()) }
TryCatch(block) ==
    [info |-> block.info,
     thrown |-> block.thrown,
     status |-> IF has_value(block.thrown)
                THEN CStatus("UnexpectedError", strdup(value(block.thrown)))
                ELSE CStatus("Success", Literal(""))]

\* NewLoadIndexInfo(c_load_index_info)
NewLoadIndexInfo == TryCatch(Return(EmptyLoadIndexInfo))

\* AppendIndexParam(c_load_index_info, c_index_key, c_index_value)
AppendIndexParam(info, index_key) ==
    TryCatch(Return([info EXCEPT !.index_params = @ \cup {index_key}]))

\* AppendFieldInfo(c_load_index_info, collection_id, partition_id,
\*                 segment_id, field_id, field_type, enable_mmap,
\*                 mmap_dir_path)
AppendFieldInfo(info, ids, field_type, enable_mmap, mmap_dir_path) ==
    TryCatch(Return([info EXCEPT !.collection_id = ids[1],
                                 !.partition_id = ids[2],
                                 !.segment_id = ids[3],
                                 !.field_id = ids[4],
                                 !.field_type = field_type,
                                 !.enable_mmap = enable_mmap,
                                 !.mmap_dir_path = mmap_dir_path]))

\* load_index_info->index = CreateIndex(...); load_index_info->index->Load(...)
CreateAndLoad(info, env, serial) ==
    IF env.CreateIndex = "throw" THEN Throw(info, "create index failed")
    ELSE LET created == [info EXCEPT !.index = Some(NewIndex(serial))]
         IN IF env.Load = "throw" THEN Throw(created, "load index failed")
            ELSE Return([created EXCEPT
                             !.index = Some(Loaded(NewIndex(serial)))])

\* appendVecIndex(c_load_index_info, c_binary_set)
appendVecIndex_NoMetricType(info, env, serial) ==
    TryCatch(
        IF "index_type" \notin info.index_params
        THEN Throw(info, "index type is empty")
        ELSE CreateAndLoad(info, env, serial))

appendVecIndex(info, env, serial) ==
    TryCatch(
        IF "index_type" \notin info.index_params
        THEN Throw(info, "index type is empty")
        ELSE IF "metric_type" \notin info.index_params
        THEN Throw(info, "metric type is empty")
        ELSE CreateAndLoad(info, env, serial))

\* appendScalarIndex(c_load_index_info, c_binary_set)
appendScalarIndex(info, env, serial) ==
    TryCatch(
        IF "index_type" \notin info.index_params
        THEN Throw(info, "Can't find index type in index_params")
        ELSE CreateAndLoad(info, env, serial))

\* AppendIndex(c_load_index_info, c_binary_set)
AppendIndex(info, env, serial) ==
    IF datatype_is_vector(info.field_type)
    THEN appendVecIndex(info, env, serial)
    ELSE appendScalarIndex(info, env, serial)

\* AppendIndexV2(c_load_index_info)
AppendIndexV2(info, env, serial) ==
    TryCatch(
        IF "index_type" \notin info.index_params
        THEN Throw(info, "index type is empty")
        ELSE IF /\ datatype_is_vector(info.field_type)
                /\ "metric_type" \notin info.index_params
        THEN Throw(info, "metric type is empty for vector index")
        ELSE IF env.CreateIndex = "throw"
        THEN Throw(info, "create index failed")
        ELSE LET created == [info EXCEPT !.index = Some(NewIndex(serial))]
             IN IF /\ info.enable_mmap
                   /\ env.IsMmapSupported
                   /\ info.mmap_dir_path = ""
                THEN Throw(created, "mmap directory path is empty")
                ELSE IF env.Load = "throw"
                THEN Throw(created, "load index failed")
                ELSE Return([created EXCEPT
                                 !.index = Some(Loaded(NewIndex(serial)))]))

\* AppendIndexV3(c_load_index_info)
AppendIndexV3(info, env, serial) ==
    TryCatch(
        IF "index_type" \notin info.index_params
        THEN Throw(info, "index type is empty")
        ELSE IF /\ datatype_is_vector(info.field_type)
                /\ "metric_type" \notin info.index_params
        THEN Throw(info, "metric type is empty for vector index")
        ELSE IF ~env.Open
        THEN Throw(info, "init space failed")
        ELSE CreateAndLoad(info, env, serial))

\* AppendIndexFilePath(c_load_index_info, c_file_path)
AppendIndexFilePath(info) ==
    TryCatch(Return([info EXCEPT !.index_files = @ + 1]))

\* AppendIndexInfo(c_load_index_info, index_id, build_id, version)
AppendIndexInfo(info, index_id, build_id, version) ==
    TryCatch(Return([info EXCEPT !.index_id = index_id,
                                 !.index_build_id = build_id,
                                 !.index_version = version]))

\* AppendIndexEngineVersionToLoadInfo(c_load_index_info, index_engine_version)
AppendIndexEngineVersionToLoadInfo(info, index_engine_version) ==
    TryCatch(Return([info EXCEPT
                         !.index_engine_version = index_engine_version]))

\* CleanLoadedIndex(c_load_index_info)
CleanLoadedIndex(info, env) ==
    TryCatch(IF env.RemoveDir = "throw"
             THEN Throw(info, "remove dir failed")
             ELSE Return(info))

\* ------------------------------------------------------- the plan executor
ExprIdle ==
    /\ pred_rows = <<>>
    /\ task_pos = 0
    /\ task_out = <<>>
    /\ bitset_holder = <<>>
    /\ cache_offset_getted = FALSE
    /\ cache_offset = <<>>
    /\ expr_pc = "idle"
    /\ expr_err = None

ConjIdle ==
    /\ is_and_ = TRUE
    /\ inputs_ = <<>>
    /\ conj_pc = "idle"
    /\ resolved = nullopt
    /\ conj_err = None
    /\ result = nullopt
    /\ evaluated = <<>>

PlanIdle ==
    /\ segment_ = [ins |-> <<>>, del |-> <<>>, sealed |-> FALSE]
    /\ timestamp_ = 0
    /\ placeholder_group_ = [num_of_queries_ |-> 0]
    /\ search_result_opt_ = nullopt
    /\ retrieve_result_opt_ = nullopt
    /\ node = nullopt
    /\ calls = <<>>
    /\ final_view = nullopt
    /\ ret = nullopt

HookIdle ==
    /\ instruction_set = [f \in Features |-> FALSE]
    /\ use_avx512 = TRUE
    /\ use_avx2 = TRUE
    /\ use_sse4_2 = TRUE
    /\ use_sse2 = TRUE
    /\ simd = StaticSimd
    /\ hook_pc = "idle"
    /\ hook_last = "none"

SchedIdle ==
    /\ gpu_search_pool = <<>>
    /\ gpu_build_pool = <<>>
    /\ resources_ = <<>>
    /\ connections_ = {}
    /\ res_mgr_running = FALSE
    /\ scheduler_running = FALSE
    /\ job_mgr_running = FALSE
    /\ sched_calls = <<>>
    /\ sched_last = "idle"

LoadIdle ==
    /\ load_index_info = EmptyLoadIndexInfo
    /\ index_serial = 0
    /\ load_status = CStatus("Success", Literal(""))
    /\ load_call = [fn |-> "none", env |-> NoEnv, thrown |-> nullopt]

\* A visitor just constructed over a segment, a query timestamp and a
\* placeholder group.
InitPlan ==
    /\ LoadIdle
    /\ segment_ \in Segments
    /\ timestamp_ \in 0..MaxTs
    /\ placeholder_group_ \in [num_of_queries_ : NumQueries]
    /\ search_result_opt_ = nullopt
    /\ retrieve_result_opt_ = nullopt
    /\ node = nullopt
    /\ calls = <<>>
    /\ final_view = nullopt
    /\ ret = nullopt
    /\ ExprIdle
    /\ ConjIdle
    /\ HookIdle
    /\ SchedIdle

\* get_moved_result(node) for a vector plan node: visits the node and moves
\* the stored result out.  A visitor is constructed for one plan and
\* executes it once.
get_moved_result ==
    /\ ~has_value(node)
    /\ ~has_value(search_result_opt_)
    /\ \E nd \in VectorNodes(get_active_count(segment_, timestamp_)) :
          LET r == VectorVisitorImpl(segment_, timestamp_,
                                     placeholder_group_.num_of_queries_, nd)
          IN /\ node' = Some(nd)
             /\ calls' = r.calls
             /\ final_view' = r.view
             /\ ret' = IF r.err # None THEN Some([kind |-> "error", code |-> r.err])
                       ELSE r.result
             /\ search_result_opt_' = nullopt
    /\ UNCHANGED <<loadVars, segment_, timestamp_, placeholder_group_, retrieve_result_opt_,
                   exprVars, conjVars, hookVars, schedVars>>

\* visit(RetrievePlanNode&): leaves the result in retrieve_result_opt_.
visit_RetrievePlanNode ==
    /\ ~has_value(node)
    /\ ~has_value(retrieve_result_opt_)
    /\ \E nd \in RetrieveNodes(get_active_count(segment_, timestamp_)) :
          LET r == VisitRetrievePlanNode(segment_, timestamp_, nd)
          IN /\ node' = Some(nd)
             /\ calls' = r.calls
             /\ final_view' = nullopt
             /\ retrieve_result_opt_' = r.result
             /\ ret' = IF r.err # None THEN Some([kind |-> "error", code |-> r.err])
                       ELSE nullopt
    /\ UNCHANGED <<loadVars, segment_, timestamp_, placeholder_group_, search_result_opt_,
                   exprVars, conjVars, hookVars, schedVars>>

Next == get_moved_result \/ visit_RetrievePlanNode

Spec == InitPlan /\ [][Next]_vars

\* ------------------------------------------------- claims: plan executor
Visited(type) == has_value(node) /\ value(node).type = type
Threw == has_value(ret) /\ value(ret).kind = "error"
Called(name) == \E k \in 1..Len(calls) : calls[k].fn = name
CallNames == [k \in 1..Len(calls) |-> calls[k].fn]

\* n = active_count(ts) of the visitor's segment at the visitor's timestamp.
ActiveCount == get_active_count(segment_, timestamp_)

RejectedByFilter(i) == value(node).has_filter /\ ~value(node).pred[i]
InsertedAfter(i) == segment_.ins[i] > timestamp_
Tombstoned(i) == segment_.del[i] # 0 /\ segment_.del[i] <= timestamp_

\* Row i (from 1) of the active rows is excluded from the last visit's plan.
Excluded(i) == RejectedByFilter(i) \/ InsertedAfter(i) \/ Tombstoned(i)
NoSurvivor == \A i \in 1..ActiveCount : Excluded(i)

\* C1: on the ANN path with n = active_count(ts) > 0, the bitset handed to
\* vector_search has n bits and bit i is set exactly when row i fails the
\* filter, or was inserted after ts, or has a tombstone at or before ts; with
\* no filter, no tombstone and every row inserted at or before ts the search
\* is made with no bit set; no row inserted after ts is a search candidate.
C1_VisibilityBitset ==
    (Visited("ANNS") /\ ActiveCount > 0 /\ ~Threw) =>
        /\ has_value(final_view) =>
              /\ Len(value(final_view)) = ActiveCount
              /\ \A i \in 1..ActiveCount : value(final_view)[i] = Excluded(i)
              /\ \A o \in value(ret).candidates :
                    o + 1 <= Len(segment_.ins) /\ ~InsertedAfter(o + 1)
        /\ (/\ ~value(node).has_filter
            /\ \A i \in 1..Len(segment_.ins) :
                  segment_.del[i] = 0 /\ ~InsertedAfter(i))
           => /\ has_value(final_view)
              /\ \A i \in 1..Len(value(final_view)) : ~value(final_view)[i]

\* A search over a sealed segment whose view excludes one row for the filter
\* alone, one row for its insert timestamp, and keeps one row.
C1_Witness ==
    /\ Visited("ANNS") /\ has_value(final_view)
    /\ \E i, j, k \in 1..ActiveCount :
          /\ RejectedByFilter(i) /\ ~InsertedAfter(i) /\ ~Tombstoned(i)
          /\ InsertedAfter(j) /\ ~RejectedByFilter(j)
          /\ ~Excluded(k)
          /\ value(final_view)[i] /\ value(final_view)[j] /\ ~value(final_view)[k]

\* C2: on the ANN path, when no row can survive (n = 0, or every active row
\* is excluded after the masks) the result is the empty search result with
\* total_nq = nq, unity_topK = top_k, nq * top_k offsets of -1 and sentinel
\* distances, and vector_search is not called; with n = 0 neither the filter
\* nor a mask is invoked.
C2_EmptySearchResult ==
    (Visited("ANNS") /\ ~Threw /\ NoSurvivor) =>
        /\ has_value(ret)
        /\ value(ret).kind = "empty"
        /\ value(ret).total_nq_ = placeholder_group_.num_of_queries_
        /\ value(ret).unity_topK_ = value(node).info.topk
        /\ Len(value(ret).seg_offsets_)
              = placeholder_group_.num_of_queries_ * value(node).info.topk
        /\ \A k \in 1..Len(value(ret).seg_offsets_) : value(ret).seg_offsets_[k] = -1
        /\ \A k \in 1..Len(value(ret).distances_) : value(ret).distances_[k] = "sentinel"
        /\ ~Called("vector_search")
        /\ ~has_value(final_view)
        /\ ActiveCount = 0 =>
              /\ ~Called("ExecuteExprNode")
              /\ ~Called("mask_with_timestamps")
              /\ ~Called("mask_with_delete")

\* A search with active rows, a filter that accepts a row, and every row
\* excluded once the masks are applied.
C2_Witness ==
    /\ Visited("ANNS") /\ ActiveCount > 1 /\ NoSurvivor
    /\ value(node).has_filter
    /\ \E i \in 1..ActiveCount : ~RejectedByFilter(i)
    /\ \E i \in 1..ActiveCount : RejectedByFilter(i) /\ ~InsertedAfter(i) /\ ~Tombstoned(i)
    /\ has_value(ret) /\ value(ret).kind = "empty"
    /\ Called("mask_with_delete")

\* The count a count request stores.
StoredCount == value(retrieve_result_opt_).field_data_[1]
IsCountRequest == Visited("Retrieve") /\ value(node).is_count /\ ~Threw

\* C3: retrieve(is_count) stores a single Int64 value, n minus the number of
\* rows excluded by the filter, the timestamp mask or the delete mask.
C3_RetrieveCount ==
    IsCountRequest =>
        /\ has_value(retrieve_result_opt_)
        /\ Len(value(retrieve_result_opt_).field_data_) = 1
        /\ value(retrieve_result_opt_).result_offsets_ = <<>>
        /\ StoredCount
              = ActiveCount - Cardinality({i \in 1..ActiveCount : Excluded(i)})

\* A count over a filter that accepts two rows, of which one is excluded by a
\* mask: the count is 1.
C3_Witness ==
    /\ IsCountRequest /\ value(node).has_filter
    /\ Cardinality({i \in 1..ActiveCount : ~RejectedByFilter(i)}) = 2
    /\ \E i \in 1..ActiveCount :
          ~RejectedByFilter(i) /\ (InsertedAfter(i) \/ Tombstoned(i))
    /\ StoredCount = 1

\* C4 as stated: a count request with n > 0 returns n - count_ones of the
\* filter bitset before the masks, and invokes neither mask.
C4_CountBeforeMasks ==
    (IsCountRequest /\ ActiveCount > 0) =>
        /\ ~Called("mask_with_timestamps")
        /\ ~Called("mask_with_delete")
        /\ StoredCount
              = ActiveCount - Cardinality({i \in 1..ActiveCount : RejectedByFilter(i)})

\* C4 (amended): a count request with n > 0 builds the filter bitset, then
\* applies mask_with_timestamps, then mask_with_delete, and only then counts:
\* both masks are invoked, in that order, before wrap_num_entities, and a row
\* that only a mask excludes is not counted.
C4_CountAfterMasks ==
    (IsCountRequest /\ ActiveCount > 0) =>
        /\ CallNames = <<"get_active_count">>
                   \o (IF value(node).has_filter THEN <<"ExecuteExprNodeInternal">>
                       ELSE <<>>)
                   \o <<"mask_with_timestamps", "mask_with_delete",
                        "wrap_num_entities">>
        /\ (\E i \in 1..ActiveCount : ~RejectedByFilter(i) /\ Excluded(i))
           => StoredCount
                 < ActiveCount - Cardinality({i \in 1..ActiveCount : RejectedByFilter(i)})

\* A count request over rows of which one passes the filter and is excluded
\* by a mask.
C4_Witness ==
    /\ IsCountRequest /\ ActiveCount > 0 /\ value(node).has_filter
    /\ \E i \in 1..ActiveCount : ~RejectedByFilter(i) /\ Excluded(i)
    /\ \E i \in 1..ActiveCount : ~Excluded(i)
    /\ Called("wrap_num_entities")

\* The rows (offsets from 0) a retrieve must return from: accepted by the
\* filter if there is one, inserted at or before ts, not tombstoned at ts.
VisibleOffsets ==
    {i - 1 : i \in {j \in 1..Len(segment_.ins) :
                       /\ ~InsertedAfter(j) /\ ~Tombstoned(j)
                       /\ j <= ActiveCount
                       /\ ~RejectedByFilter(j)}}

\* r holds the first limit members of S, ascending and distinct.
IsFirstOf(r, limit, S) ==
    /\ Len(r) = Min(limit, Cardinality(S))
    /\ \A k \in 1..Len(r) : r[k] \in S
    /\ \A k \in 1..(Len(r) - 1) : r[k] < r[k + 1]
    /\ \A x \in S : (\A k \in 1..Len(r) : r[k] # x) => \A k \in 1..Len(r) : r[k] < x

IsRowsRequest == Visited("Retrieve") /\ ~value(node).is_count /\ ~Threw

\* C5 as stated: a retrieve with no filter and is_count = false over a segment
\* with a row visible at ts returns the first limit visible offsets.
C5_RetrieveNoFilter ==
    (IsRowsRequest /\ ~value(node).has_filter /\ VisibleOffsets # {}) =>
        /\ has_value(retrieve_result_opt_)
        /\ IsFirstOf(value(retrieve_result_opt_).result_offsets_,
                     value(node).limit, VisibleOffsets)

\* C6: a retrieve with a filter and is_count = false returns exactly the
\* first limit offsets, ascending and distinct, of the rows accepted by the
\* filter, not tombstoned at ts and inserted at or before ts.
C6_RetrieveFiltered ==
    (IsRowsRequest /\ value(node).has_filter) =>
        /\ has_value(retrieve_result_opt_)
        /\ IsFirstOf(value(retrieve_result_opt_).result_offsets_,
                     value(node).limit, VisibleOffsets)

\* A filtered retrieve that returns an offset while the segment also holds
\* a row the filter rejects, a row the filter accepts behind a tombstone,
\* and more visible rows than the limit.
C6_Witness ==
    /\ IsRowsRequest /\ value(node).has_filter
    /\ \E i \in 1..ActiveCount : RejectedByFilter(i)
    /\ \E i \in 1..ActiveCount : ~RejectedByFilter(i) /\ Tombstoned(i)
    /\ has_value(retrieve_result_opt_)
    /\ Len(value(retrieve_result_opt_).result_offsets_) = 1
    /\ Called("find_first")

\* C7: on the retrieve path with no survivor (n = 0, or every active row
\* excluded after the masks) a count request stores count 0, any other
\* request stores the empty result, and neither timestamp_filter nor
\* find_first is called.
C7_RetrieveNoSurvivor ==
    (Visited("Retrieve") /\ ~Threw /\ NoSurvivor) =>
        /\ has_value(retrieve_result_opt_)
        /\ value(node).is_count => value(retrieve_result_opt_) = wrap_num_entities(0)
        /\ ~value(node).is_count =>
              value(retrieve_result_opt_)
                 = [field_data_ |-> <<>>, result_offsets_ |-> <<>>]
        /\ ~Called("timestamp_filter")
        /\ ~Called("timestamp_filter_offsets")
        /\ ~Called("find_first")

\* A retrieve of rows, with a filter that accepts a row, over active rows
\* that the masks exclude.
C7_Witness ==
    /\ IsRowsRequest /\ value(node).has_filter
    /\ ActiveCount > 0 /\ NoSurvivor
    /\ \E i \in 1..ActiveCount : ~RejectedByFilter(i)
    /\ Called("mask_with_delete")
    /\ has_value(retrieve_result_opt_)

\* -------------------------------------- ExecuteExprNodeInternal, by chunk
Zeros(n) == [i \in 1..n |-> FALSE]

\* What a task may hand back for a chunk: a ColumnVector, a RowVector, a
\* child of another variant, or a result row without exactly one child.
ChunkShapes ==
    {[kind |-> "column", nchildren |-> 1], [kind |-> "row", nchildren |-> 1],
     [kind |-> "other", nchildren |-> 1], [kind |-> "column", nchildren |-> 0],
     [kind |-> "row", nchildren |-> 2]}

\* A caller about to run a filter over a segment of Len(pred_rows) rows: its
\* bitset is empty or was resized to the row count.
InitExpr ==
    /\ LoadIdle
    /\ pred_rows \in UNION {[1..k -> BOOLEAN] : k \in 0..MaxRows}
    /\ task_pos = 0
    /\ task_out = <<>>
    /\ bitset_holder \in {<<>>, Zeros(Len(pred_rows))}
    /\ cache_offset_getted = FALSE
    /\ cache_offset = <<>>
    /\ expr_pc = "idle"
    /\ expr_err = None
    /\ PlanIdle
    /\ ConjIdle
    /\ HookIdle
    /\ SchedIdle

ExprFrame ==
    [bitset |-> bitset_holder, getted |-> cache_offset_getted,
     cache |-> cache_offset, err |-> None]

\* The call, up to the creation of the task.
ExprStart ==
    /\ expr_pc = "idle"
    /\ LET st == ExprEnter(bitset_holder, cache_offset_getted, cache_offset)
       IN /\ bitset_holder' = st.bitset
          /\ cache_offset_getted' = st.getted
          /\ cache_offset' = st.cache
    /\ expr_pc' = "loop"
    /\ UNCHANGED <<loadVars, pred_rows, task_pos, task_out, expr_err, planVars, conjVars,
                   hookVars, schedVars>>

\* task->Next() returns the next rows of the segment; the loop body runs.
ExprNextChunk ==
    /\ expr_pc = "loop"
    /\ task_pos < Len(pred_rows)
    /\ \E len \in 1..Min(ChunkRows, Len(pred_rows) - task_pos), sh \in ChunkShapes :
          LET c == TaskChunk(pred_rows, task_pos, len, sh.kind, sh.nchildren)
              st == ConsumeChunk(ExprFrame, c)
          IN /\ bitset_holder' = st.bitset
             /\ cache_offset_getted' = st.getted
             /\ cache_offset' = st.cache
             /\ expr_err' = st.err
             /\ expr_pc' = IF st.err # None THEN "thrown" ELSE "loop"
             /\ task_pos' = task_pos + len
             /\ task_out' = Append(task_out, c)
    /\ UNCHANGED <<loadVars, pred_rows, planVars, conjVars, hookVars, schedVars>>

\* task->Next() returns nothing: the loop ends.
ExprExhausted ==
    /\ expr_pc = "loop"
    /\ task_pos = Len(pred_rows)
    /\ expr_pc' = "done"
    /\ UNCHANGED <<loadVars, pred_rows, task_pos, task_out, bitset_holder,
                   cache_offset_getted, cache_offset, expr_err, planVars, conjVars,
                   hookVars, schedVars>>

NextExpr == ExprStart \/ ExprNextChunk \/ ExprExhausted

ExprSpec == InitExpr /\ [][NextExpr]_vars

\* C8: once the task is drained the accumulated bitset has exactly n bits and
\* bit i is the predicate's value on row i; while it is drained the bitset
\* holds exactly the rows produced so far, in order, whatever the bitset held
\* before and whichever variant each chunk arrived in.
C8_BitsetIsPredicate ==
    /\ expr_pc = "loop" => bitset_holder = SubSeq(pred_rows, 1, task_pos)
    /\ expr_pc = "done" =>
          /\ Len(bitset_holder) = Len(pred_rows)
          /\ \A i \in 1..Len(pred_rows) : bitset_holder[i] = pred_rows[i]

\* A drained task over three rows, accepted and rejected ones, of which a
\* chunk arrived as a RowVector and the first hit did not.
C8_Witness ==
    /\ expr_pc = "done"
    /\ Len(pred_rows) = 3
    /\ pred_rows[1] /\ ~pred_rows[3]
    /\ cache_offset_getted
    /\ \A k \in 1..Len(cache_offset) : cache_offset[k] # 0

\* -------------------------------------------- PhyConjunctFilterExpr, a chunk
\* The children a conjunct may be given over a chunk of r rows: a boolean
\* expression with its result on the chunk, or an expression of another type.
Children(r) ==
    {[type |-> "BOOL", out |-> o] : o \in [1..r -> BOOLEAN]}
    \cup {[type |-> "INT64", out |-> <<>>]}

InitConj ==
    /\ LoadIdle
    /\ is_and_ \in BOOLEAN
    /\ \E r \in 1..ChunkRows, k \in 0..MaxInputs : inputs_ \in [1..k -> Children(r)]
    /\ conj_pc = "new"
    /\ resolved = nullopt
    /\ conj_err = None
    /\ result = nullopt
    /\ evaluated = <<>>
    /\ PlanIdle
    /\ ExprIdle
    /\ HookIdle
    /\ SchedIdle

\* The constructor resolves the type of the conjunct from its children's.
ConjunctConstruct ==
    /\ conj_pc = "new"
    /\ LET t == ResolveType([i \in 1..Len(inputs_) |-> inputs_[i].type])
       IN /\ conj_pc' = IF t.ok THEN "constructed" ELSE "rejected"
          /\ resolved' = IF t.ok THEN Some(t.type) ELSE nullopt
          /\ conj_err' = IF t.ok THEN None ELSE t.err
    /\ UNCHANGED <<loadVars, is_and_, inputs_, result, evaluated, planVars, exprVars,
                   hookVars, schedVars>>

\* Eval(context, result) on a constructed conjunct.
ConjunctEval ==
    /\ conj_pc = "constructed"
    /\ LET e == Eval(inputs_, is_and_, result)
       IN /\ result' = e.result
          /\ evaluated' = e.evaluated
    /\ conj_pc' = "evaluated"
    /\ UNCHANGED <<loadVars, is_and_, inputs_, resolved, conj_err, planVars, exprVars,
                   hookVars, schedVars>>

NextConj == ConjunctConstruct \/ ConjunctEval

ConjunctSpec == InitConj /\ [][NextConj]_vars

\* The first child's result dominates the conjunct.
FirstDominates ==
    /\ Len(inputs_) >= 1
    /\ \/ is_and_ /\ \A i \in 1..Len(inputs_[1].out) : ~inputs_[1].out[i]
       \/ ~is_and_ /\ \A i \in 1..Len(inputs_[1].out) : inputs_[1].out[i]

\* C9: if the first child is all-false under AND, or all-true under OR, Eval
\* returns the first child's result and evaluates no other child.
C9_ShortCircuitFirst ==
    (conj_pc = "evaluated" /\ FirstDominates) =>
        /\ result = Some(inputs_[1].out)
        /\ evaluated = <<1>>

\* AND over two rows of an all-false first child and a second child that
\* accepts a row: only the first was evaluated.
C9_Witness ==
    /\ conj_pc = "evaluated" /\ is_and_ /\ FirstDominates
    /\ Len(inputs_) >= 2
    /\ Len(inputs_[1].out) = 2
    /\ \E i \in 1..2 : inputs_[2].out[i]
    /\ evaluated = <<1>>
    /\ result = Some(<<FALSE, FALSE>>)

IllTyped == Len(inputs_) = 0 \/ \E i \in 1..Len(inputs_) : inputs_[i].type # "BOOL"

\* C10: a conjunct with no input, or with an input that is not BOOL, is
\* rejected with a typing failure and none of its children is ever
\* evaluated; otherwise the resolved type is BOOL.
C10_ResolveType ==
    conj_pc # "new" =>
        /\ IllTyped <=> conj_pc = "rejected"
        /\ IllTyped =>
              /\ conj_err = "InvalidExpression"
              /\ resolved = nullopt
              /\ evaluated = <<>>
              /\ result = nullopt
        /\ ~IllTyped => resolved = Some("BOOL") /\ conj_err = None

\* A rejected conjunct whose first child is BOOL and whose last is not.
C10_Witness ==
    /\ conj_pc = "rejected"
    /\ Len(inputs_) >= 2
    /\ inputs_[1].type = "BOOL"
    /\ inputs_[Len(inputs_)].type # "BOOL"

\* ------------------------------------------------- the SIMD dispatch table
UseFlags ==
    [use_avx512 |-> use_avx512, use_avx2 |-> use_avx2,
     use_sse4_2 |-> use_sse4_2, use_sse2 |-> use_sse2]

\* The process before its static initialisers have run: any host, any
\* setting of the four switches.
InitHook ==
    /\ LoadIdle
    /\ instruction_set \in [Features -> BOOLEAN]
    /\ use_avx512 \in BOOLEAN
    /\ use_avx2 \in BOOLEAN
    /\ use_sse4_2 \in BOOLEAN
    /\ use_sse2 \in BOOLEAN
    /\ simd = StaticSimd
    /\ hook_pc = "static"
    /\ hook_last = "none"
    /\ PlanIdle
    /\ ExprIdle
    /\ ConjIdle
    /\ SchedIdle

\* The static initialiser runs, once.
StaticInit ==
    /\ hook_pc = "static"
    /\ simd' = init_hook_(simd, UseFlags, instruction_set)
    /\ hook_pc' = "loaded"
    /\ hook_last' = "init_hook_"
    /\ UNCHANGED <<loadVars, instruction_set, useFlags, planVars, exprVars, conjVars,
                   schedVars>>

\* Some code of the process assigns one of the four switches.
SetUseFlag ==
    /\ hook_pc = "loaded"
    /\ \E f \in {"use_avx512", "use_avx2", "use_sse4_2", "use_sse2"}, b \in BOOLEAN :
          /\ use_avx512' = IF f = "use_avx512" THEN b ELSE use_avx512
          /\ use_avx2' = IF f = "use_avx2" THEN b ELSE use_avx2
          /\ use_sse4_2' = IF f = "use_sse4_2" THEN b ELSE use_sse4_2
          /\ use_sse2' = IF f = "use_sse2" THEN b ELSE use_sse2
          /\ UseFlags' # UseFlags
    /\ hook_last' = "assign"
    /\ UNCHANGED <<loadVars, instruction_set, simd, hook_pc, planVars, exprVars, conjVars,
                   schedVars>>

\* A later call of bitset_hook().
CallBitsetHook ==
    /\ hook_pc = "loaded"
    /\ simd' = bitset_hook(simd, UseFlags, instruction_set)
    /\ hook_last' = "bitset_hook"
    /\ UNCHANGED <<loadVars, instruction_set, useFlags, hook_pc, planVars, exprVars,
                   conjVars, schedVars>>

\* A later call of find_term_hook().
CallFindTermHook ==
    /\ hook_pc = "loaded"
    /\ simd' = find_term_hook(simd, UseFlags, instruction_set)
    /\ hook_last' = "find_term_hook"
    /\ UNCHANGED <<loadVars, instruction_set, useFlags, hook_pc, planVars, exprVars,
                   conjVars, schedVars>>

\* A later call of boolean_hook().
CallBooleanHook ==
    /\ hook_pc = "loaded"
    /\ simd' = boolean_hook(simd, UseFlags, instruction_set)
    /\ hook_last' = "boolean_hook"
    /\ UNCHANGED <<loadVars, instruction_set, useFlags, hook_pc, planVars, exprVars,
                   conjVars, schedVars>>

NextHook ==
    \/ StaticInit
    \/ SetUseFlag
    \/ CallBitsetHook
    \/ CallFindTermHook
    \/ CallBooleanHook

HookSpec == InitHook /\ [][NextHook]_vars

\* ---------------------------------------------- claims: SIMD dispatch table
\* An instruction set is selected when its switch is on and the host
\* supports it.
Avx512Selected ==
    /\ use_avx512
    /\ instruction_set["AVX512F"]
    /\ instruction_set["AVX512DQ"]
    /\ instruction_set["AVX512BW"]
Avx2Selected == use_avx2 /\ instruction_set["AVX2"]
Sse42Selected == use_sse4_2 /\ instruction_set["SSE42"]
Sse2Selected == use_sse2 /\ instruction_set["SSE2"]

HighestSelected ==
    IF Avx512Selected THEN "AVX512"
    ELSE IF Avx2Selected THEN "AVX2"
    ELSE IF Sse42Selected THEN "SSE4"
    ELSE IF Sse2Selected THEN "SSE2"
    ELSE "REF"

JustInitialised == hook_last = "init_hook_"

\* C11, as stated: after the static initialiser every dispatched symbol
\* points to the kernel of the highest selected instruction set in the
\* order AVX-512F+DQ+BW, AVX2, SSE4.2, SSE2, and to the reference kernel
\* only when none of the four is selected.
C11_HighestAvailable ==
    JustInitialised =>
        \A sym \in Symbols : simd[sym] = Kernel(KernelFn(sym), HighestSelected)

\* C11, amended: after the static initialiser the find_term pointers follow
\* the order AVX-512F+DQ+BW, AVX2, SSE4.2, SSE2, reference; and_bool and
\* or_bool follow AVX-512F+DQ+BW, AVX2, SSE2, reference (SSE4.2 is not a
\* tier for them); get_bitset_block points to the SSE2 kernel when any of
\* the four sets is selected and to the reference kernel otherwise;
\* all_true, all_false and invert_bool point to the SSE2 kernel when SSE2
\* is selected and to the reference kernel otherwise.
C11_DispatchAfterInit ==
    JustInitialised =>
        /\ \A sym \in FindTermSymbols :
              simd[sym] = Kernel(KernelFn(sym), HighestSelected)
        /\ \A sym \in {"and_bool", "or_bool"} :
              simd[sym] = Kernel(KernelFn(sym),
                                 IF Avx512Selected THEN "AVX512"
                                 ELSE IF Avx2Selected THEN "AVX2"
                                 ELSE IF Sse2Selected THEN "SSE2"
                                 ELSE "REF")
        /\ simd["get_bitset_block"] =
              Kernel("GetBitsetBlock",
                     IF HighestSelected = "REF" THEN "REF" ELSE "SSE2")
        /\ \A sym \in {"all_true", "all_false", "invert_bool"} :
              simd[sym] = Kernel(KernelFn(sym),
                                 IF Sse2Selected THEN "SSE2" ELSE "REF")

\* The host has AVX-512F+DQ+BW and the switch is on: find_term went to the
\* AVX-512 kernels and get_bitset_block to the SSE2 kernel.
C11_Witness ==
    /\ JustInitialised
    /\ Avx512Selected
    /\ simd["find_term_int32"].isa = "AVX512"
    /\ simd["and_bool"].isa = "AVX512"
    /\ simd["get_bitset_block"].isa = "SSE2"

\* The kernel pointers of the namespace.
Pointers(d) == [sym \in Symbols |-> d[sym]]

\* The symbols a hook dispatches.
HookSymbols(h) ==
    CASE h = "bitset_hook" -> {"get_bitset_block"}
      [] h = "find_term_hook" -> FindTermSymbols
      [] h = "boolean_hook" -> BooleanSymbols
      [] OTHER -> {}

NoSwitchOn == ~use_avx512 /\ ~use_avx2 /\ ~use_sse4_2 /\ ~use_sse2

\* C12: once the static initialiser has run, no later operation changes a
\* kernel pointer, and a hook called with every switch cleared leaves none
\* of its symbols on a SIMD kernel.
C12_DispatchFixed ==
    [][/\ hook_pc = "loaded" => Pointers(simd') = Pointers(simd)
       /\ (hook_pc = "loaded" /\ NoSwitchOn') =>
              \A sym \in HookSymbols(hook_last') : simd'[sym].isa = "REF"]_vars

\* --------------------------------------------------- the scheduler service
\* ResourceFactory::Create(name, type, device_id, enable_loader,
\* enable_executor)
Create(name, type, device_id, enable_loader, enable_executor) ==
    [name |-> name, type |-> type, device_id |-> device_id,
     enable_loader |-> enable_loader, enable_executor |-> enable_executor]

Connection(name, speed) == [name |-> name, speed |-> speed]

\* std::to_string of a device id.
to_string(id) == ToString(id)

\* The services: sv.resources and sv.connections are the ResourceMgr's
\* graph, sv.res_mgr, sv.scheduler and sv.job_mgr tell which singleton is
\* running, sv.calls are the calls issued on them so far.
HasResource(sv, name) ==
    \E i \in 1..Len(sv.resources) : sv.resources[i].name = name

Connected(sv, a, b) == \E l \in sv.connections : {l.a, l.b} = {a, b}

Issued(sv, op, a, b, ok) ==
    Append(sv.calls, [op |-> op, a |-> a, b |-> b, ok |-> ok,
                      started |-> sv.res_mgr,
                      running |-> [res_mgr |-> sv.res_mgr,
                                   scheduler |-> sv.scheduler,
                                   job_mgr |-> sv.job_mgr]])

\* ResourceMgr::Add: a resource whose name is already present is rejected.
Add(sv, res) ==
    LET ok == ~HasResource(sv, res.name)
    IN [sv EXCEPT !.resources = IF ok THEN Append(@, res) ELSE @,
                  !.calls = Issued(sv, "Add", res.name, "", ok)]

\* ResourceMgr::Connect: rejected when an endpoint is missing or the two
\* are already connected.
Connect(sv, a, b, conn) ==
    LET ok == HasResource(sv, a) /\ HasResource(sv, b) /\ ~Connected(sv, a, b)
    IN [sv EXCEPT !.connections =
                      IF ok THEN @ \cup {[a |-> a, b |-> b, conn |-> conn]} ELSE @,
                  !.calls = Issued(sv, "Connect", a, b, ok)]

\* Start and Stop of the three singletons.
ResMgrStart(sv) ==
    [sv EXCEPT !.res_mgr = TRUE, !.calls = Issued(sv, "ResMgr.Start", "", "", TRUE)]
SchedStart(sv) ==
    [sv EXCEPT !.scheduler = TRUE, !.calls = Issued(sv, "Sched.Start", "", "", TRUE)]
JobMgrStart(sv) ==
    [sv EXCEPT !.job_mgr = TRUE, !.calls = Issued(sv, "JobMgr.Start", "", "", TRUE)]
ResMgrStop(sv) ==
    [sv EXCEPT !.res_mgr = FALSE, !.calls = Issued(sv, "ResMgr.Stop", "", "", TRUE)]
SchedStop(sv) ==
    [sv EXCEPT !.scheduler = FALSE, !.calls = Issued(sv, "Sched.Stop", "", "", TRUE)]
JobMgrStop(sv) ==
    [sv EXCEPT !.job_mgr = FALSE, !.calls = Issued(sv, "JobMgr.Stop", "", "", TRUE)]

\* The loop over build_gpu_ids: the build ids that are not search ids, in
\* order.
RECURSIVE NotFindBuildIds(_, _, _)
NotFindBuildIds(build_gpu_ids, gpu_ids, i) ==
    IF i > Len(build_gpu_ids) THEN <<>>
    ELSE LET find_gpu_id == \E j \in 1..Len(gpu_ids) : gpu_ids[j] = build_gpu_ids[i]
         IN (IF ~find_gpu_id THEN <<build_gpu_ids[i]>> ELSE <<>>)
            \o NotFindBuildIds(build_gpu_ids, gpu_ids, i + 1)

\* One of the two loops that add the GPU resources: Add, then Connect to
\* cpu, for each id in order.
RECURSIVE AddGpus(_, _, _, _)
AddGpus(sv, ids, i, pcie) ==
    IF i > Len(ids) THEN sv
    ELSE AddGpus(Connect(Add(sv, Create(to_string(ids[i]), "GPU", ids[i], TRUE, TRUE)),
                         "cpu", to_string(ids[i]), pcie),
                 ids, i + 1, pcie)

load_simple_config_SearchPoolOnly(sv, gpu_ids, build_gpu_ids) ==
    LET io == Connection("io", 500)
        pcie == Connection("pcie", 12000)
        s1 == Add(sv, Create("disk", "DISK", 0, TRUE, FALSE))
        s2 == Add(s1, Create("cpu", "CPU", 0, TRUE, TRUE))
        s3 == Connect(s2, "disk", "cpu", io)
    IN AddGpus(s3, gpu_ids, 1, pcie)

\* load_simple_config()
load_simple_config(sv, gpu_ids, build_gpu_ids) ==
    LET io == Connection("io", 500)
        pcie == Connection("pcie", 12000)
        s1 == Add(sv, Create("disk", "DISK", 0, TRUE, FALSE))
        s2 == Add(s1, Create("cpu", "CPU", 0, TRUE, TRUE))
        s3 == Connect(s2, "disk", "cpu", io)
        not_find_build_ids == NotFindBuildIds(build_gpu_ids, gpu_ids, 1)
        s4 == AddGpus(s3, gpu_ids, 1, pcie)
    IN AddGpus(s4, not_find_build_ids, 1, pcie)

StartSchedulerService_JobMgrFirst(sv, gpu_ids, build_gpu_ids) ==
    ResMgrStart(SchedStart(JobMgrStart(load_simple_config(sv, gpu_ids, build_gpu_ids))))

\* StartSchedulerService()
StartSchedulerService(sv, gpu_ids, build_gpu_ids) ==
    JobMgrStart(SchedStart(ResMgrStart(load_simple_config(sv, gpu_ids, build_gpu_ids))))

\* StopSchedulerService()
StopSchedulerService(sv) == ResMgrStop(SchedStop(JobMgrStop(sv)))

\* The pools a configuration may list: device ids, repetitions allowed.
MaxPool == 2
MaxDevice == 1
Pools == UNION {[1..k -> 0..MaxDevice] : k \in 0..MaxPool}

Services ==
    [resources |-> resources_, connections |-> connections_,
     res_mgr |-> res_mgr_running, scheduler |-> scheduler_running,
     job_mgr |-> job_mgr_running, calls |-> <<>>]

\* The process before the service is started for the first time.
InitSched ==
    /\ LoadIdle
    /\ gpu_search_pool \in Pools
    /\ gpu_build_pool \in Pools
    /\ resources_ = <<>>
    /\ connections_ = {}
    /\ res_mgr_running = FALSE
    /\ scheduler_running = FALSE
    /\ job_mgr_running = FALSE
    /\ sched_calls = <<>>
    /\ sched_last = "none"
    /\ PlanIdle
    /\ ExprIdle
    /\ ConjIdle
    /\ HookIdle

Installed(sv, last) ==
    /\ resources_' = sv.resources
    /\ connections_' = sv.connections
    /\ res_mgr_running' = sv.res_mgr
    /\ scheduler_running' = sv.scheduler
    /\ job_mgr_running' = sv.job_mgr
    /\ sched_calls' = sv.calls
    /\ sched_last' = last

CallStartSchedulerService ==
    /\ sched_last # "idle"
    /\ Installed(StartSchedulerService(Services, gpu_search_pool, gpu_build_pool),
                 "start")
    /\ UNCHANGED <<loadVars, gpu_search_pool, gpu_build_pool, planVars, exprVars, conjVars,
                   hookVars>>

CallStopSchedulerService ==
    /\ sched_last # "idle"
    /\ Installed(StopSchedulerService(Services), "stop")
    /\ UNCHANGED <<loadVars, gpu_search_pool, gpu_build_pool, planVars, exprVars, conjVars,
                   hookVars>>

NextSched == CallStartSchedulerService \/ CallStopSchedulerService

SchedSpec == InitSched /\ [][NextSched]_vars

\* ------------------------------------------------ claims: scheduler service
Range(s) == {s[i] : i \in 1..Len(s)}

ResourcesOfType(type) ==
    {i \in 1..Len(resources_) : resources_[i].type = type}

Link(a, b, speed) ==
    \E l \in connections_ : {l.a, l.b} = {a, b} /\ l.conn.speed = speed

\* C13: after load_simple_config, whatever the two pools, the graph has
\* exactly one DISK resource (loader on, executor off), exactly one CPU
\* resource, a disk-cpu link of bandwidth 500 and, for every device id of
\* either pool, a GPU resource linked to cpu with bandwidth 12000; a GPU is
\* linked to nothing but the cpu.
C13_ResourceGraph ==
    sched_last = "start" =>
        /\ Cardinality(ResourcesOfType("DISK")) = 1
        /\ \A i \in ResourcesOfType("DISK") :
              resources_[i].enable_loader /\ ~resources_[i].enable_executor
        /\ Cardinality(ResourcesOfType("CPU")) = 1
        /\ Link("disk", "cpu", 500)
        /\ \A id \in Range(gpu_search_pool) \cup Range(gpu_build_pool) :
              /\ \E i \in ResourcesOfType("GPU") :
                    /\ resources_[i].device_id = id
                    /\ resources_[i].name = to_string(id)
              /\ Link("cpu", to_string(id), 12000)
        /\ \A l \in connections_ : \A i \in ResourcesOfType("GPU") :
              /\ l.a = resources_[i].name => l.b = "cpu"
              /\ l.b = resources_[i].name => l.a = "cpu"

\* A build pool with a device the search pool does not list.
C13_Witness ==
    /\ sched_last = "start"
    /\ Range(gpu_build_pool) \ Range(gpu_search_pool) # {}
    /\ Range(gpu_search_pool) # {}
    /\ Cardinality(ResourcesOfType("GPU")) = 2
    /\ Cardinality(connections_) = 3

\* C14: repeating the last service call leaves the graph and the running
\* state of the three singletons as they were, and no Add or Connect is
\* issued once the resource manager has been started.
C14_StartStopIdempotent ==
    [][/\ sched_last' = sched_last =>
              /\ resources_' = resources_
              /\ connections_' = connections_
              /\ res_mgr_running' = res_mgr_running
              /\ scheduler_running' = scheduler_running
              /\ job_mgr_running' = job_mgr_running
       /\ \A i \in 1..Len(sched_calls') :
              sched_calls'[i].op \in {"Add", "Connect"} => ~sched_calls'[i].started]_vars

\* ------------------------------------ the plan executor, malformed results
\* The shapes of ChunkShapes the loop of ExecuteExprNodeInternal rejects.
FaultShapes == {sh \in ChunkShapes : sh.nchildren # 1 \/ sh.kind \notin TaskKinds}

\* The number of results a task over n rows returns.
NumChunks(n) == (n + ChunkRows - 1) \div ChunkRows

\* The filters whose task returns one malformed result.
FaultyFilters(n) ==
    {[has_filter |-> TRUE, pred |-> p, kind |-> k,
      fault |-> Some([at |-> at, kind |-> sh.kind, nchildren |-> sh.nchildren])] :
          p \in Preds(n), k \in TaskKinds, at \in 1..NumChunks(n), sh \in FaultShapes}

FaultyVectorNodes(n) ==
    {[type |-> "ANNS", has_filter |-> f.has_filter, pred |-> f.pred,
      kind |-> f.kind, fault |-> f.fault, info |-> q] :
          f \in FaultyFilters(n), q \in [topk : TopKs]}

FaultyRetrieveNodes(n) ==
    {[type |-> "Retrieve", has_filter |-> f.has_filter, pred |-> f.pred,
      kind |-> f.kind, fault |-> f.fault, is_count |-> c,
      limit |-> IF c THEN 0 ELSE MaxLimit] :
          f \in FaultyFilters(n), c \in BOOLEAN}

\* get_moved_result(node) for a vector plan node whose filter task returns
\* a malformed result.
get_moved_result_malformed ==
    /\ ~has_value(node)
    /\ ~has_value(search_result_opt_)
    /\ \E nd \in FaultyVectorNodes(get_active_count(segment_, timestamp_)) :
          LET r == VectorVisitorImpl(segment_, timestamp_,
                                     placeholder_group_.num_of_queries_, nd)
          IN /\ node' = Some(nd)
             /\ calls' = r.calls
             /\ final_view' = r.view
             /\ ret' = IF r.err # None THEN Some([kind |-> "error", code |-> r.err])
                       ELSE r.result
             /\ search_result_opt_' = nullopt
    /\ UNCHANGED <<loadVars, segment_, timestamp_, placeholder_group_, retrieve_result_opt_,
                   exprVars, conjVars, hookVars, schedVars>>

\* visit(RetrievePlanNode&) for a node whose filter task returns a
\* malformed result.
visit_RetrievePlanNode_malformed ==
    /\ ~has_value(node)
    /\ ~has_value(retrieve_result_opt_)
    /\ \E nd \in FaultyRetrieveNodes(get_active_count(segment_, timestamp_)) :
          LET r == VisitRetrievePlanNode(segment_, timestamp_, nd)
          IN /\ node' = Some(nd)
             /\ calls' = r.calls
             /\ final_view' = nullopt
             /\ retrieve_result_opt_' = r.result
             /\ ret' = IF r.err # None THEN Some([kind |-> "error", code |-> r.err])
                       ELSE nullopt
    /\ UNCHANGED <<loadVars, segment_, timestamp_, placeholder_group_, search_result_opt_,
                   exprVars, conjVars, hookVars, schedVars>>

NextFault == get_moved_result_malformed \/ visit_RetrievePlanNode_malformed

\* A visitor just constructed over a segment without tombstones: the visits
\* of this specification end in the filter, before the segment's tombstones
\* are consulted.
InitFault ==
    /\ InitPlan
    /\ \A i \in 1..Len(segment_.del) : segment_.del[i] = 0

FaultSpec == InitFault /\ [][NextFault]_vars

\* The malformed result of the last visit's task.
Fault == value(value(node).fault)
Malformed == has_value(node) /\ has_value(value(node).fault)

\* C15: a filter task result whose row has not exactly one child, or whose
\* child is neither a ColumnVector nor a RowVector, aborts the visit with an
\* error, UnexpectedError for the unexpected variant; no result is stored or
\* returned and none of mask_with_timestamps, mask_with_delete,
\* vector_search, timestamp_filter and find_first is called.
C15_MalformedAborts ==
    Malformed =>
        /\ Threw
        /\ (Fault.nchildren = 1) => value(ret).code = "UnexpectedError"
        /\ ~has_value(search_result_opt_)
        /\ ~has_value(retrieve_result_opt_)
        /\ ~has_value(final_view)
        /\ \A k \in 1..Len(calls) :
              calls[k].fn \in {"get_active_count", "ExecuteExprNode",
                               "ExecuteExprNodeInternal"}

\* The second result of the task is of an unexpected variant, after a first
\* result that was appended to the bitset.
C15_Witness ==
    /\ Malformed
    /\ value(node).type = "ANNS"
    /\ Fault.at = 2 /\ Fault.kind = "other" /\ Fault.nchildren = 1
    /\ Threw
    /\ value(ret).code = "UnexpectedError"
    /\ Called("ExecuteExprNode")

\* ----------------------------------------- claims: order of the segment calls
\* The calls of the last visit that take the query timestamp.
TimedCalls ==
    {k \in 1..Len(calls) :
        calls[k].fn \in {"get_active_count", "mask_with_timestamps", "mask_with_delete",
                         "vector_search", "timestamp_filter",
                         "timestamp_filter_offsets"}}

\* C16: an ANN visit with n = active_count(ts) > 0 reads the active count,
\* then runs the filter (when there is one) over all n rows, then calls
\* mask_with_timestamps, then mask_with_delete, then either returns the
\* empty result (every row excluded) or calls vector_search once; each of
\* these calls gets the visitor's timestamp and the visit yields exactly one
\* search result.
C16_AnnCallOrder ==
    (Visited("ANNS") /\ ActiveCount > 0 /\ ~Threw) =>
        /\ CallNames =
              <<"get_active_count">>
              \o (IF value(node).has_filter THEN <<"ExecuteExprNode">> ELSE <<>>)
              \o <<"mask_with_timestamps", "mask_with_delete">>
              \o (IF NoSurvivor THEN <<"empty_search_result">>
                  ELSE <<"vector_search">>)
        /\ \A k \in TimedCalls : calls[k].ts = timestamp_
        /\ \A k \in 1..Len(calls) :
              calls[k].fn = "vector_search" =>
                  /\ Len(calls[k].bitset) = ActiveCount
                  /\ final_view = Some(calls[k].bitset)
        /\ has_value(ret)
        /\ value(ret).kind = (IF NoSurvivor THEN "empty" ELSE "index")
        /\ ~has_value(search_result_opt_)

\* A filtered search that reached vector_search.
C16_Witness ==
    /\ Visited("ANNS") /\ ActiveCount > 0 /\ ~Threw
    /\ value(node).has_filter
    /\ \E i \in 1..ActiveCount : Excluded(i)
    /\ Len(calls) = 5
    /\ calls[5].fn = "vector_search"
    /\ value(ret).kind = "index"

\* The calls of the last visit to a function of the given name.
CallsOf(name) == {k \in 1..Len(calls) : calls[k].fn = name}

\* The exclusion bitset of the last visit: bit i set when row i is excluded.
ExclusionBitset == [i \in 1..ActiveCount |-> Excluded(i)]

\* The last visit's filter handed back offsets: it ran and its task
\* returned RowVectors.
MaterializedOffsets == value(node).has_filter /\ value(node).kind = "row"

\* C17: a retrieve of rows with a survivor calls exactly one of the two
\* timestamp_filter overloads.  When the filter materialized offsets it is
\* timestamp_filter(bitset, cache_offsets, ts) on the exclusion bitset and
\* find_first gets already_flipped = false; otherwise it is
\* timestamp_filter(bitset, ts) on the flipped bitset, whose 1-bits are the
\* survivors, and find_first gets already_flipped = true.  The flag given to
\* find_first agrees with the polarity of the bitset given with it.
C17_MvccFastPath ==
    (IsRowsRequest /\ ActiveCount > 0 /\ ~NoSurvivor) =>
        /\ Cardinality(CallsOf("timestamp_filter")
                       \cup CallsOf("timestamp_filter_offsets")) = 1
        /\ Cardinality(CallsOf("find_first")) = 1
        /\ MaterializedOffsets =>
              /\ \A k \in CallsOf("timestamp_filter_offsets") :
                    /\ calls[k].bitset = ExclusionBitset
                    /\ calls[k].ts = timestamp_
              /\ CallsOf("timestamp_filter") = {}
              /\ \A k \in CallsOf("find_first") : ~calls[k].false_filtered_out
        /\ ~MaterializedOffsets =>
              /\ \A k \in CallsOf("timestamp_filter") :
                    /\ calls[k].bitset = flip(ExclusionBitset)
                    /\ calls[k].ts = timestamp_
              /\ CallsOf("timestamp_filter_offsets") = {}
              /\ \A k \in CallsOf("find_first") : calls[k].false_filtered_out
        /\ \A k \in CallsOf("find_first") :
              /\ k = Len(calls)
              /\ Len(calls[k].bitset) = ActiveCount
              /\ \A i \in 1..ActiveCount :
                    (calls[k].bitset[i] = calls[k].false_filtered_out) <=> ~Excluded(i)

\* --------------------------------------------- claims: the offset cache
\* The results returned so far that arrived as a RowVector.
RowVectors == {k \in 1..Len(task_out) : task_out[k].kind = "row"}

\* The boolean columns of the results returned so far, one after another.
RECURSIVE BoolColumns(_)
BoolColumns(k) == IF k = 0 THEN <<>> ELSE BoolColumns(k - 1) \o task_out[k].bits

\* C18: while the loop has met no malformed result, cache_offset is the
\* offset column of the first result that arrived as a RowVector (empty
\* when there was none) whatever later results carried, the bitset is the
\* boolean columns of all results, and cache_offset_getted is set exactly
\* when a RowVector has arrived.
C18_OffsetCacheOneShot ==
    (expr_pc \in {"loop", "done"}) =>
        /\ cache_offset_getted <=> RowVectors # {}
        /\ RowVectors = {} => cache_offset = <<>>
        /\ \A k \in RowVectors :
              (\A j \in RowVectors : k <= j) => cache_offset = task_out[k].offsets
        /\ bitset_holder = BoolColumns(Len(task_out))

\* Two RowVectors have arrived, both with a hit, then a ColumnVector.
C18_Witness ==
    /\ expr_pc = "done"
    /\ Len(task_out) = 3
    /\ task_out[1].kind = "row" /\ task_out[1].offsets # <<>>
    /\ task_out[2].kind = "row" /\ task_out[2].offsets # <<>>
    /\ task_out[3].kind = "column"
    /\ cache_offset = task_out[1].offsets

\* ------------------------------------------- claims: conjunct evaluation
\* The rows of the chunk the conjunct is evaluated over.
ChunkSize == Len(inputs_[1].out)

\* Row r of the combination of the first i children.
Combined(i, r) ==
    IF is_and_ THEN \A j \in 1..i : inputs_[j].out[r]
    ELSE \E j \in 1..i : inputs_[j].out[r]

\* The combination of the first i children is all-false under AND, all-true
\* under OR.
Dominated(i) == \A r \in 1..ChunkSize : Combined(i, r) = ~is_and_

\* C19: the children are evaluated in order; once the combination up to a
\* child c_i, i >= 2, is dominated, Eval returns and evaluates none of
\* c_{i+1}..c_k; while it is not dominated the next child is evaluated.
C19_ShortCircuitLater ==
    conj_pc = "evaluated" =>
        /\ \A j \in 1..Len(evaluated) : evaluated[j] = j
        /\ \A i \in 2..Len(evaluated) :
              /\ Dominated(i) => Len(evaluated) = i
              /\ (~Dominated(i) /\ i < Len(inputs_)) => Len(evaluated) >= i + 1

\* AND over three children: the first two together reject every row, the
\* first alone does not, the third accepts a row and is not evaluated.
C19_Witness ==
    /\ conj_pc = "evaluated" /\ is_and_
    /\ Len(inputs_) = 3
    /\ ~Dominated(1) /\ Dominated(2)
    /\ \E r \in 1..ChunkSize : inputs_[3].out[r]
    /\ evaluated = <<1, 2>>

\* C20: the vector Eval returns has the chunk's row count and is, row by
\* row, the AND (resp. OR) of all the children's results, whether or not
\* the evaluation stopped early.
C20_ShortCircuitSameAnswer ==
    conj_pc = "evaluated" =>
        /\ has_value(result)
        /\ Len(value(result)) = ChunkSize
        /\ \A r \in 1..ChunkSize : value(result)[r] = Combined(Len(inputs_), r)

\* OR over three children and two rows that stopped after the second child,
\* the third child rejecting a row.
C20_Witness ==
    /\ conj_pc = "evaluated" /\ ~is_and_
    /\ Len(inputs_) = 3
    /\ ChunkSize = 2
    /\ evaluated = <<1, 2>>
    /\ \E r \in 1..ChunkSize : ~inputs_[3].out[r]
    /\ result = Some(<<TRUE, TRUE>>)

\* The calls of a log that add a resource of the given name, and those that
\* connect the two given resources.
AddsOf(log, name) ==
    {k \in 1..Len(log) : log[k].op = "Add" /\ log[k].a = name}
ConnectsOf(log, a, b) ==
    {k \in 1..Len(log) : log[k].op = "Connect" /\ log[k].a = a /\ log[k].b = b}

\* C21: the load_simple_config of the first StartSchedulerService adds no
\* resource name twice; each distinct device id of the two pools gets
\* exactly one Add and exactly one Connect to cpu, whether the id is in both
\* pools or several times in one; every Connect comes after the Add of both
\* its endpoints.
C21_NoDuplicateAdd ==
    [][(sched_last = "none" /\ sched_last' = "start") =>
          /\ \A k \in 1..Len(sched_calls') :
                sched_calls'[k].op = "Add" =>
                    AddsOf(sched_calls', sched_calls'[k].a) = {k}
          /\ \A id \in Range(gpu_search_pool) \cup Range(gpu_build_pool) :
                /\ Cardinality(AddsOf(sched_calls', to_string(id))) = 1
                /\ Cardinality(ConnectsOf(sched_calls', "cpu", to_string(id))) = 1
          /\ \A k \in 1..Len(sched_calls') :
                sched_calls'[k].op = "Connect" =>
                    /\ \E i \in AddsOf(sched_calls', sched_calls'[k].a) : i < k
                    /\ \E i \in AddsOf(sched_calls', sched_calls'[k].b) : i < k]_vars

\* The names of the calls of the last service call, in order.
SchedCallNames == [k \in 1..Len(sched_calls) |-> sched_calls[k].op]

\* The calls of the last service call on the resource graph.
GraphCalls == {k \in 1..Len(sched_calls) : sched_calls[k].op \in {"Add", "Connect"}}

\* A running state in which no singleton runs on a stopped one.
Layered(run) ==
    /\ run.job_mgr => (run.scheduler /\ run.res_mgr)
    /\ run.scheduler => run.res_mgr

\* C24: StartSchedulerService issues every Add and Connect first, then
\* starts the resource manager, the scheduler and the job manager in that
\* order; StopSchedulerService stops the job manager, the scheduler and the
\* resource manager in that order; at every call and after the last one the
\* job manager runs only while scheduler and resource manager run, and the
\* scheduler only while the resource manager runs.
C24_StartStopOrder ==
    /\ sched_last = "start" =>
          /\ Len(sched_calls) = Cardinality(GraphCalls) + 3
          /\ GraphCalls = 1..(Len(sched_calls) - 3)
          /\ SubSeq(SchedCallNames, Len(sched_calls) - 2, Len(sched_calls))
                = <<"ResMgr.Start", "Sched.Start", "JobMgr.Start">>
          /\ res_mgr_running /\ scheduler_running /\ job_mgr_running
    /\ sched_last = "stop" =>
          /\ SchedCallNames = <<"JobMgr.Stop", "Sched.Stop", "ResMgr.Stop">>
          /\ ~res_mgr_running /\ ~scheduler_running /\ ~job_mgr_running
    /\ \A k \in 1..Len(sched_calls) : Layered(sched_calls[k].running)
    /\ Layered([res_mgr |-> res_mgr_running, scheduler |-> scheduler_running,
                job_mgr |-> job_mgr_running])

\* A stop of a running service that had GPU resources: at its first call
\* all three singletons ran, at its last only the resource manager.
C24_Witness ==
    /\ sched_last = "stop"
    /\ Len(resources_) > 2
    /\ sched_calls[1].running
          = [res_mgr |-> TRUE, scheduler |-> TRUE, job_mgr |-> TRUE]
    /\ sched_calls[3].running
          = [res_mgr |-> TRUE, scheduler |-> FALSE, job_mgr |-> FALSE]
    /\ ~res_mgr_running

\* ------------------------------------ the load-index C API: specification
\* A caller that holds one CLoadIndexInfo and calls the API on it, in any
\* order.  load_call is the last call: its name, what its collaborators did
\* and what was thrown inside it.
LoadCall(fn, env, r) == [fn |-> fn, env |-> env, thrown |-> r.thrown]

InitLoad ==
    /\ PlanIdle
    /\ ExprIdle
    /\ ConjIdle
    /\ HookIdle
    /\ SchedIdle
    /\ load_index_info = NewLoadIndexInfo.info
    /\ index_serial = 0
    /\ load_status = NewLoadIndexInfo.status
    /\ load_call = LoadCall("NewLoadIndexInfo", NoEnv, NewLoadIndexInfo)

Returned(fn, env, r) ==
    /\ load_index_info' = r.info
    /\ load_status' = r.status
    /\ load_call' = LoadCall(fn, env, r)
    /\ UNCHANGED <<planVars, exprVars, conjVars, hookVars, schedVars>>

CallNewLoadIndexInfo ==
    /\ Returned("NewLoadIndexInfo", NoEnv, NewLoadIndexInfo)
    /\ UNCHANGED index_serial

CallAppendIndexParam ==
    \E index_key \in IndexKeys :
        /\ Returned("AppendIndexParam", NoEnv,
                    AppendIndexParam(load_index_info, index_key))
        /\ UNCHANGED index_serial

CallAppendFieldInfo ==
    \E ids \in FieldIds, field_type \in DataTypes \ {"NONE"},
       enable_mmap \in BOOLEAN, mmap_dir_path \in MmapDirs :
        /\ Returned("AppendFieldInfo", NoEnv,
                    AppendFieldInfo(load_index_info, ids, field_type,
                                    enable_mmap, mmap_dir_path))
        /\ UNCHANGED index_serial

\* One of the three append calls.  index_serial counts the calls that got as
\* far as CreateIndex returning, so every index created is a new one.
Appended(fn, env, r) ==
    /\ index_serial < MaxIndexes
    /\ Returned(fn, env, r)
    /\ index_serial' = IF r.info.index # load_index_info.index
                       THEN index_serial + 1
                       ELSE index_serial

CallAppendIndex ==
    \E create \in Outcomes, load \in Outcomes :
        LET env == Env(create, load, TRUE, FALSE, "ok")
        IN Appended("AppendIndex", env,
                    AppendIndex(load_index_info, env, index_serial + 1))

CallAppendIndexV2 ==
    \E create \in Outcomes, load \in Outcomes, mmap \in BOOLEAN :
        LET env == Env(create, load, TRUE, mmap, "ok")
        IN Appended("AppendIndexV2", env,
                    AppendIndexV2(load_index_info, env, index_serial + 1))

CallAppendIndexV3 ==
    \E create \in Outcomes, load \in Outcomes, open \in BOOLEAN,
       mmap \in BOOLEAN :
        LET env == Env(create, load, open, mmap, "ok")
        IN Appended("AppendIndexV3", env,
                    AppendIndexV3(load_index_info, env, index_serial + 1))

CallAppendIndexFilePath ==
    /\ load_index_info.index_files < MaxFiles
    /\ Returned("AppendIndexFilePath", NoEnv,
                AppendIndexFilePath(load_index_info))
    /\ UNCHANGED index_serial

CallAppendIndexInfo ==
    \E ids \in IndexInfos :
        /\ Returned("AppendIndexInfo", NoEnv,
                    AppendIndexInfo(load_index_info, ids[1], ids[2], ids[3]))
        /\ UNCHANGED index_serial

CallAppendIndexEngineVersionToLoadInfo ==
    \E index_engine_version \in EngineVersions :
        /\ Returned("AppendIndexEngineVersionToLoadInfo", NoEnv,
                    AppendIndexEngineVersionToLoadInfo(load_index_info,
                                                       index_engine_version))
        /\ UNCHANGED index_serial

CallCleanLoadedIndex ==
    \E rmdir \in Outcomes :
        LET env == Env("ok", "ok", TRUE, FALSE, rmdir)
        IN /\ Returned("CleanLoadedIndex", env,
                       CleanLoadedIndex(load_index_info, env))
           /\ UNCHANGED index_serial

NextLoad ==
    \/ CallNewLoadIndexInfo
    \/ CallAppendIndexParam
    \/ CallAppendFieldInfo
    \/ CallAppendIndex
    \/ CallAppendIndexV2
    \/ CallAppendIndexV3
    \/ CallAppendIndexFilePath
    \/ CallAppendIndexInfo
    \/ CallAppendIndexEngineVersionToLoadInfo
    \/ CallCleanLoadedIndex

LoadIndexSpec == InitLoad /\ [][NextLoad]_vars

\* ------------------------------------------- the load-index C API: claims
Appends == {"AppendIndex", "AppendIndexV2", "AppendIndexV3"}

\* The last call was an append on a field of a vector type whose
\* index_params lack index_type or metric_type.
VectorParamsMissing ==
    /\ load_call.fn \in Appends
    /\ datatype_is_vector(load_index_info.field_type)
    /\ ~(IndexKeys \subseteq load_index_info.index_params)

\* The last call was AppendIndexV2 or AppendIndexV3 on a field that is not
\* of a vector type, with index_type but without metric_type, and nothing
\* the call relies on failed.
ScalarWithoutMetricType ==
    /\ load_call.fn \in {"AppendIndexV2", "AppendIndexV3"}
    /\ ~datatype_is_vector(load_index_info.field_type)
    /\ "index_type" \in load_index_info.index_params
    /\ "metric_type" \notin load_index_info.index_params
    /\ load_call.env.CreateIndex = "ok"
    /\ load_call.env.Load = "ok"
    /\ load_call.env.Open
    /\ ~(/\ load_call.fn = "AppendIndexV2"
         /\ load_index_info.enable_mmap
         /\ load_call.env.IsMmapSupported
         /\ load_index_info.mmap_dir_path = "")

\* C22: every CStatus-returning function of the load-index C API returns
\* Success with an empty message when nothing inside it threw, and
\* UnexpectedError with a heap-allocated copy of the exception's message when
\* something did, so every call ends in a status; an append on a vector field
\* whose index_params lack index_type or metric_type returns UnexpectedError,
\* and AppendIndexV2 / AppendIndexV3 on a non-vector field succeed without
\* metric_type.
C22_StatusOfEveryCall ==
    /\ load_status.error_code \in {"Success", "UnexpectedError"}
    /\ ~has_value(load_call.thrown) =>
           /\ load_status.error_code = "Success"
           /\ load_status.error_msg.text = ""
    /\ has_value(load_call.thrown) =>
           /\ load_status.error_code = "UnexpectedError"
           /\ load_status.error_msg.heap
           /\ load_status.error_msg.text = value(load_call.thrown)
    /\ VectorParamsMissing => load_status.error_code = "UnexpectedError"
    /\ ScalarWithoutMetricType => load_status.error_code = "Success"

\* AppendIndex on a vector field that has index_type but no metric_type has
\* returned UnexpectedError, "metric type is empty".
C22_Witness ==
    /\ load_call.fn = "AppendIndex"
    /\ VectorParamsMissing
    /\ "index_type" \in load_index_info.index_params
    /\ load_status.error_code = "UnexpectedError"
    /\ load_status.error_msg = strdup("metric type is empty")

\* C23: a failed index append leaves the load-index info unchanged: whenever
\* AppendIndex, AppendIndexV2 or AppendIndexV3 returns a status other than
\* Success, load_index_info->index still holds the value it had before the
\* call.
C23_FailedAppendKeepsIndex ==
    [][(/\ load_call'.fn \in Appends
        /\ load_status'.error_code # "Success")
       => load_index_info'.index = load_index_info.index]_vars

====
